---- MODULE Spec2Model ----
(***************************************************************************)
(* AuraFX: the rate cache and the request pipeline of                      *)
(* FrankfurterApiService, the debounced search of RatesTableComponent,     *)
(* the debounced conversion of CurrencyConverterComponent and the          *)
(* auto-refresh timer of DashboardComponent.                               *)
(*                                                                         *)
(* Strings are TLA+ strings; a character is a string of length 1.          *)
(* Time: the service and the dashboard count Date.now() in units of 150 s  *)
(* (cacheTimeout = REFRESH_INTERVAL_MS = 5 * 60 * 1000 ms = 2), the two    *)
(* debounced components count it in units of 100 ms (debounceTime(300) =   *)
(* 3).  What happens within one unit happens at the same Date.now().       *)
(***************************************************************************)
EXTENDS Integers, Sequences, FiniteSets, Bags, TLC

VARIABLES
  \* FrankfurterApiService
  cache,        \* Map<string, CacheEntry>, in insertion order: <<[key, data, timestamp]>>
  now,          \* Date.now()
  inflight,     \* http requests subscribed and not yet settled (a bag)
  out,          \* what the last call or response did: the emission to the subscriber
  \* buildCacheKey on two requests
  keyReq,       \* the two requests whose keys are compared
  keyOut,       \* their keys, once built
  \* RatesTableComponent
  searchTerm, currentPage, currencies, filters,
  searchPending,   \* debounceTime: the value held by the timer, or NoValue
  searchTimer,     \* time left on the debounce timer
  searchLast,      \* distinctUntilChanged: the last value it let through, or NoValue
  \* CurrencyConverterComponent
  amount, fromCurrency, toCurrency,
  convertPending, convertTimer, convertLast,
  convertLog,      \* the last convert() call: the amount and the codes it read
  result, exchangeRate,   \* the result and exchangeRate signals: Null or a number
  convRequests,    \* the subscriptions of convert() that have not delivered, oldest first
  convertCalls,    \* how many requests convert() has issued
  conversionHistory,      \* the conversionHistory signal, a sequence of conversions
  historyStorage,  \* localStorage['aurafx-conversion-history']
  favoriteCurrencies,     \* the favoriteCurrencies signal, a sequence of codes
  favoritesStorage,       \* localStorage['aurafx-favorites']
  \* CurrencyService.getCurrencyData and the indicators of the chart
  calcIn,          \* the arguments of the function applied
  calcOut,         \* what it returned, once applied
  \* CurrencyAnalyticsCardComponent and CurrencyChartComponent
  analytics,       \* the signals of the card: weekHigh, weekLow, ..., trend
  analyticsLoad,   \* what forkJoin delivered last: the week and the month series
  metrics,         \* the metrics signal of the chart
  chartData,       \* the chartData signal: the series loaded last
  \* DashboardComponent
  refreshInterval, \* the handle kept by the component, or Null
  timers,          \* the interval timers registered with the browser: handle -> time to next tick
  dashState,       \* "created" | "alive" | "destroyed"
  loading,         \* the loading signal
  error,           \* the error signal: Null or a message key
  pendingLoads,    \* getCurrencyData subscriptions that have not delivered yet
  dashLog,         \* the last loadData call: who made it, when, in which state
  \* CurrencyService and the subscriptions of the dashboard to getCurrencyData
  selection,       \* baseCurrency$.value and selectedCurrencies$.value
  subs,            \* the live subscriptions, oldest first, each with its runs in progress
  lastUpdate,      \* the lastUpdate signal: Date.now() of the last delivery, -1 for null
  shown,           \* the selection the list in the currencies signal was built for
  feedLog,         \* what the last step did: runs started, deliveries, requests
  \* RatesTableComponent: favorites, sorting and loading
  tableFavorites,         \* the favoriteCurrencies signal of the table
  tableFavoritesStorage,  \* localStorage['aurafx-rate-favorites']
  sortColumn,      \* Null, "code" or "rate"
  sortDirection,   \* "asc" or "desc"
  tableLoading,    \* the loading signal of the table
  tableError,      \* the error signal of the table
  tableLog,        \* "typed" after updateSearchTerm, "cleared" after clearFilters
  \* MarketOverviewComponent
  marketCurrencies,     \* the currencies signal
  marketBase,           \* the baseCurrency signal
  marketLoading,        \* the loading signal
  marketError,          \* the error signal: Null or a message key
  marketHistorical7d,   \* the historical7d signal
  marketHistorical30d,  \* the historical30d signal
  marketFeed,           \* the getCurrencyData subscription: "none" | "pending" | "live" | "closed"
  marketRuns,           \* the forkJoin subscriptions that wait for a request
  marketLog             \* the last step and the path loadHistoricalData took

apiVars   == <<cache, now, inflight, out>>
keyVars   == <<keyReq, keyOut>>
tableVars == <<searchTerm, currentPage, currencies, filters,
               searchPending, searchTimer, searchLast>>
convVars  == <<amount, fromCurrency, toCurrency,
               convertPending, convertTimer, convertLast, convertLog>>
histVars  == <<result, exchangeRate, convRequests, convertCalls,
               conversionHistory, historyStorage>>
favVars   == <<favoriteCurrencies, favoritesStorage>>
calcVars  == <<calcIn, calcOut>>
statVars  == <<analytics, analyticsLoad, metrics, chartData>>
dashVars  == <<refreshInterval, timers, dashState, loading, error, pendingLoads, dashLog>>
feedVars  == <<selection, subs, lastUpdate, shown, feedLog>>
pagerVars == <<tableFavorites, tableFavoritesStorage, sortColumn, sortDirection,
               tableLoading, tableError, tableLog>>
marketVars == <<marketCurrencies, marketBase, marketLoading, marketError,
                marketHistorical7d, marketHistorical30d, marketFeed, marketRuns, marketLog>>
vars      == <<apiVars, keyVars, tableVars, convVars, histVars, favVars, dashVars,
               calcVars, statVars, feedVars, pagerVars, marketVars>>

Null    == "null"       \* JavaScript null / undefined
NoValue == "<none>"     \* no value yet (an operator that has not emitted)

(***************************************************************************)
(* String primitives of JavaScript, on TLA+ strings.                       *)
(***************************************************************************)
UpperAlphabet == "ABCDEFGHIJKLMNOPQRSTUVWXYZ"
LowerAlphabet == "abcdefghijklmnopqrstuvwxyz"
Digits        == "0123456789"

CharAt(s, i) == SubSeq(s, i, i)

UpperLetters == { CharAt(UpperAlphabet, i) : i \in 1..Len(UpperAlphabet) }
LowerLetters == { CharAt(LowerAlphabet, i) : i \in 1..Len(LowerAlphabet) }
DigitChars   == { CharAt(Digits, i) : i \in 1..Len(Digits) }

IsUpperLetter(c) == c \in UpperLetters
IsDigit(c)       == c \in DigitChars

\* String.prototype.toUpperCase, one character
UpperOf ==
  [c \in LowerLetters |->
     CharAt(UpperAlphabet, CHOOSE i \in 1..Len(LowerAlphabet) : CharAt(LowerAlphabet, i) = c)]

toUpperChar(c) == IF c \in LowerLetters THEN UpperOf[c] ELSE c

RECURSIVE toUpperCase(_)
toUpperCase(s) ==
  IF Len(s) = 0 THEN "" ELSE toUpperChar(CharAt(s, 1)) \o toUpperCase(Tail(s))

\* String.prototype.trim (the whitespace of the model is the blank)
RECURSIVE trimStart(_)
trimStart(s) ==
  IF Len(s) > 0 /\ CharAt(s, 1) = " " THEN trimStart(Tail(s)) ELSE s

RECURSIVE trimEnd(_)
trimEnd(s) ==
  IF Len(s) > 0 /\ CharAt(s, Len(s)) = " " THEN trimEnd(SubSeq(s, 1, Len(s) - 1)) ELSE s

trim(s) == trimEnd(trimStart(s))

\* s.replace(/[^A-Z]/g, '')
RECURSIVE keepUpperLetters(_)
keepUpperLetters(s) ==
  IF Len(s) = 0 THEN ""
  ELSE (IF IsUpperLetter(CharAt(s, 1)) THEN CharAt(s, 1) ELSE "") \o keepUpperLetters(Tail(s))

\* s.replace(/[^0-9-]/g, '')
RECURSIVE keepDateChars(_)
keepDateChars(s) ==
  IF Len(s) = 0 THEN ""
  ELSE (IF IsDigit(CharAt(s, 1)) \/ CharAt(s, 1) = "-" THEN CharAt(s, 1) ELSE "")
         \o keepDateChars(Tail(s))

\* s.slice(0, n)
slice(s, n) == SubSeq(s, 1, IF Len(s) < n THEN Len(s) ELSE n)

\* /^[A-Z]{3}$/.test(s)
isValidCurrencyCode(s) == Len(s) = 3 /\ \A i \in 1..3 : IsUpperLetter(CharAt(s, i))

\* Array.prototype.join
RECURSIVE join(_, _)
join(list, sep) ==
  IF Len(list) = 0 THEN ""
  ELSE IF Len(list) = 1 THEN list[1]
  ELSE list[1] \o sep \o join(Tail(list), sep)

\* Array.from(new Set(list)): the first occurrence of each element, in order
uniqueInOrder(list) ==
  LET first == { i \in 1..Len(list) : \A j \in 1..(i - 1) : list[j] # list[i] }
      nth(k) == CHOOSE i \in first : Cardinality({ j \in first : j < i }) = k - 1
  IN  [k \in 1..Cardinality(first) |-> list[nth(k)]]

(***************************************************************************)
(* FrankfurterApiService: constants, sanitizers, cache key.                *)
(***************************************************************************)
cacheTimeout  == 2      \* 5 * 60 * 1000 ms, in units of 150 s
retryAttempts == 2
keyMaxLength  == 200    \* sanitized.slice(0, 200)
\* maxCacheSize is 100 in the source; the model runs the same code with a
\* smaller capacity so that a full cache is reached.
maxCacheSize  == 2

\* new Date().toISOString().split('T')[0]: the day the model runs in
Today == "2024-12-26"

sanitizeCurrencyCode(code) ==
  IF code = "" THEN "EUR"
  ELSE LET sanitized == slice(keepUpperLetters(toUpperCase(trim(code))), 3)
       IN  IF isValidCurrencyCode(sanitized) THEN sanitized ELSE "EUR"

\* codes is the argument when it is an array (isArray), anything else otherwise
sanitizeCurrencyArray(isArray, codes) ==
  IF ~isArray THEN <<>>
  ELSE LET sanitized == SelectSeq([i \in 1..Len(codes) |-> sanitizeCurrencyCode(codes[i])],
                                  isValidCurrencyCode)
       IN  uniqueInOrder(sanitized)

\* The value of a digit character
DigitValueOf ==
  [c \in DigitChars |-> (CHOOSE i \in 1..Len(Digits) : CharAt(Digits, i) = c) - 1]

DigitValue(c) == DigitValueOf[c]

\* /^\d{4}-\d{2}-\d{2}$/.test(s)
matchesDatePattern(s) ==
  /\ Len(s) = 10
  /\ \A i \in {1, 2, 3, 4, 6, 7, 9, 10} : IsDigit(CharAt(s, i))
  /\ CharAt(s, 5) = "-"
  /\ CharAt(s, 8) = "-"

\* !isNaN(new Date(s).getTime()) for s of the form dddd-dd-dd: the month is
\* 01..12 and the day 01..31
isValidDate(s) ==
  LET month == 10 * DigitValue(CharAt(s, 6)) + DigitValue(CharAt(s, 7))
      day   == 10 * DigitValue(CharAt(s, 9)) + DigitValue(CharAt(s, 10))
  IN  month \in 1..12 /\ day \in 1..31

sanitizeDate(date) ==
  IF date = "" THEN Today
  ELSE LET sanitized == slice(keepDateChars(trim(date)), 10)
       IN  IF ~matchesDatePattern(sanitized) THEN Today
           ELSE IF ~isValidDate(sanitized) THEN Today
           ELSE sanitized

\* The parts handed to buildCacheKey: a string or an array of strings
StrPart(s) == [arr |-> FALSE, s |-> s, l |-> <<>>]
ArrPart(l) == [arr |-> TRUE, s |-> "", l |-> l]

partToString(part) ==
  IF part.arr THEN (IF Len(part.l) > 0 THEN join(part.l, ",") ELSE "all") ELSE part.s

nonEmpty(s) == Len(s) > 0

buildCacheKey(parts) ==
  LET mapped == [i \in 1..Len(parts) |-> partToString(parts[i])]
  IN  slice(join(SelectSeq(mapped, nonEmpty), "_"), keyMaxLength)

(***************************************************************************)
(* A call of the service: r = [op, start, end, base, isArray, symbols].    *)
(* op is "latest" (getLatestRates), "historical" (getHistoricalRate, date  *)
(* = start), "timeseries" (getTimeSeries; end = "" when endDate is not     *)
(* given) or "currencies" (getCurrencies).                                 *)
(***************************************************************************)
sanitizedBase(r)    == sanitizeCurrencyCode(r.base)
sanitizedSymbols(r) == sanitizeCurrencyArray(r.isArray, r.symbols)
sanitizedStart(r)   == sanitizeDate(r.start)
sanitizedEnd(r)     == IF r.end # "" THEN sanitizeDate(r.end) ELSE ""

dateRange(r) ==
  IF sanitizedEnd(r) # "" THEN sanitizedStart(r) \o ".." \o sanitizedEnd(r)
  ELSE sanitizedStart(r) \o ".."

cacheKey(r) ==
  CASE r.op = "latest" ->
         buildCacheKey(<<StrPart("latest"), StrPart(sanitizedBase(r)),
                         ArrPart(sanitizedSymbols(r))>>)
    [] r.op = "historical" ->
         buildCacheKey(<<StrPart("historical"), StrPart(sanitizedStart(r)),
                         StrPart(sanitizedBase(r)), ArrPart(sanitizedSymbols(r))>>)
    [] r.op = "timeseries" ->
         buildCacheKey(<<StrPart("timeseries"), StrPart(dateRange(r)),
                         StrPart(sanitizedBase(r)), ArrPart(sanitizedSymbols(r))>>)
    [] OTHER -> "currencies"

(***************************************************************************)
(* Response validation.  A rate value v is what Number(value) gives:       *)
(* [kind |-> "num", n |-> an integer], [kind |-> "nan"] or [kind |-> "inf"]*)
(* (n |-> 0 in both).  A mapping (Record<string, T>) is a function from    *)
(* its keys.                                                               *)
(***************************************************************************)
EmptyMap == [x \in {} |-> 0]

\* m[k] = v
Put(m, k, v) == [x \in (DOMAIN m) \cup {k} |-> IF x = k THEN v ELSE m[x]]

\* isFinite(numValue) && numValue > 0
isFinitePositive(v) == v.kind = "num" /\ v.n > 0

\* The loop over Object.entries(rate.rates): entries = <<[code, value]>>
RECURSIVE sanitizeRates(_)
sanitizeRates(entries) ==
  IF Len(entries) = 0 THEN EmptyMap
  ELSE LET init == sanitizeRates(SubSeq(entries, 1, Len(entries) - 1))
           e    == entries[Len(entries)]
           sanitizedKey == sanitizeCurrencyCode(e.code)
       IN  IF sanitizedKey # "" /\ isFinitePositive(e.value)
           THEN Put(init, sanitizedKey, e.value.n)
           ELSE init

createEmptyExchangeRate(base) ==
  [base  |-> IF sanitizeCurrencyCode(base) # "" THEN sanitizeCurrencyCode(base) ELSE "EUR",
   date  |-> Today,
   rates |-> EmptyMap]

createEmptyHistoricalRate(base, startDate, endDate) ==
  [base       |-> IF sanitizeCurrencyCode(base) # "" THEN sanitizeCurrencyCode(base) ELSE "EUR",
   start_date |-> IF startDate # "" THEN sanitizeDate(startDate) ELSE "",
   end_date   |-> IF endDate # "" THEN sanitizeDate(endDate) ELSE "",
   rates      |-> EmptyMap]

\* body = [isObject, base, hasRates, dateIsString, date, rates]: base = "" is
\* a missing (falsy) base, hasRates says that rates is an object
validateExchangeRate(body, base) ==
  IF ~body.isObject THEN createEmptyExchangeRate(base)
  ELSE IF body.base = "" \/ ~body.hasRates THEN createEmptyExchangeRate(base)
  ELSE [base  |-> IF sanitizeCurrencyCode(body.base) # ""
                  THEN sanitizeCurrencyCode(body.base) ELSE base,
        date  |-> IF body.dateIsString THEN sanitizeDate(body.date) ELSE Today,
        rates |-> sanitizeRates(body.rates)]

\* The outer loop of validateHistoricalRate: days = <<[date, isObject, currencies]>>
RECURSIVE sanitizeSeries(_)
sanitizeSeries(days) ==
  IF Len(days) = 0 THEN EmptyMap
  ELSE LET init == sanitizeSeries(SubSeq(days, 1, Len(days) - 1))
           d    == days[Len(days)]
           sanitizedCurrencies == sanitizeRates(d.currencies)
       IN  IF d.isObject /\ DOMAIN sanitizedCurrencies # {}
           THEN Put(init, sanitizeDate(d.date), sanitizedCurrencies)
           ELSE init

\* body = [isObject, base, hasRates, datesAreStrings, start_date, end_date, rates]
validateHistoricalRate(body, base) ==
  IF ~body.isObject THEN createEmptyHistoricalRate(base, "", "")
  ELSE IF body.base = "" \/ ~body.hasRates THEN createEmptyHistoricalRate(base, "", "")
  ELSE [base       |-> IF sanitizeCurrencyCode(body.base) # ""
                       THEN sanitizeCurrencyCode(body.base) ELSE base,
        start_date |-> IF body.datesAreStrings THEN sanitizeDate(body.start_date) ELSE "",
        end_date   |-> IF body.datesAreStrings THEN sanitizeDate(body.end_date) ELSE "",
        rates      |-> sanitizeSeries(body.rates)]

\* s.replace(/[<>"'&]/g, '')
RECURSIVE stripMarkup(_)
stripMarkup(s) ==
  IF Len(s) = 0 THEN ""
  ELSE (IF CharAt(s, 1) \in {"<", ">", "\"", "'", "&"} THEN "" ELSE CharAt(s, 1))
         \o stripMarkup(Tail(s))

sanitizeString(input) ==
  IF input = "" THEN "" ELSE slice(stripMarkup(trim(input)), 100)

\* The loop of validateCurrencies: entries = <<[code, name]>>
RECURSIVE sanitizeNames(_)
sanitizeNames(entries) ==
  IF Len(entries) = 0 THEN EmptyMap
  ELSE LET init == sanitizeNames(SubSeq(entries, 1, Len(entries) - 1))
           e    == entries[Len(entries)]
       IN  IF sanitizeCurrencyCode(e.code) # "" /\ sanitizeString(e.name) # ""
           THEN Put(init, sanitizeCurrencyCode(e.code), sanitizeString(e.name))
           ELSE init

\* body = [isObject, entries]
validateCurrencies(body) ==
  IF ~body.isObject THEN EmptyMap ELSE sanitizeNames(body.entries)

(***************************************************************************)
(* The cache: getCached, setCache, evictOldestCacheEntry, cleanupCache on  *)
(* a Map in insertion order.                                               *)
(***************************************************************************)
EntryIndex(c, key) ==
  IF \E i \in 1..Len(c) : c[i].key = key
  THEN CHOOSE i \in 1..Len(c) : c[i].key = key
  ELSE 0

\* Map.prototype.delete
RemoveAt(c, i) == SubSeq(c, 1, i - 1) \o SubSeq(c, i + 1, Len(c))

\* Map.prototype.set: an existing key keeps its place
MapSet(c, key, entry) ==
  LET i == EntryIndex(c, key)
      e == [key |-> key, data |-> entry.data, timestamp |-> entry.timestamp]
  IN  IF i # 0 THEN [c EXCEPT ![i] = e] ELSE Append(c, e)

\* What a lookup that finds nothing returns as data (the caller tests hit)
NoData == [none |-> TRUE]

\* getCached at time t: [hit, data] is the return value (null when ~hit),
\* cache the map afterwards, purged whether the delete was executed.
\* getCached_AtTtl is getCached with <= for <: an entry exactly
\* cacheTimeout old is still returned.
getCached_AtTtl(c, key, t) ==
  LET i == EntryIndex(c, key)
  IN  IF i # 0 /\ t - c[i].timestamp <= cacheTimeout
      THEN [hit |-> TRUE, data |-> c[i].data, cache |-> c, purged |-> FALSE]
      ELSE IF i # 0
      THEN [hit |-> FALSE, data |-> NoData, cache |-> RemoveAt(c, i), purged |-> TRUE]
      ELSE [hit |-> FALSE, data |-> NoData, cache |-> c, purged |-> FALSE]

\* getCached_Touch is a lookup that renews the timestamp of the entry it
\* returns.
getCached_Touch(c, key, t) ==
  LET i == EntryIndex(c, key)
  IN  IF i # 0 /\ t - c[i].timestamp < cacheTimeout
      THEN [hit |-> TRUE, data |-> c[i].data,
            cache |-> [c EXCEPT ![i].timestamp = t], purged |-> FALSE]
      ELSE IF i # 0
      THEN [hit |-> FALSE, data |-> NoData, cache |-> RemoveAt(c, i), purged |-> TRUE]
      ELSE [hit |-> FALSE, data |-> NoData, cache |-> c, purged |-> FALSE]

getCached(c, key, t) ==
  LET i == EntryIndex(c, key)
  IN  IF i # 0 /\ t - c[i].timestamp < cacheTimeout
      THEN [hit |-> TRUE, data |-> c[i].data, cache |-> c, purged |-> FALSE]
      ELSE IF i # 0
      THEN [hit |-> FALSE, data |-> NoData, cache |-> RemoveAt(c, i), purged |-> TRUE]
      ELSE [hit |-> FALSE, data |-> NoData, cache |-> c, purged |-> FALSE]

\* The for loop of evictOldestCacheEntry from entry i on: the index of
\* oldestKey (0: null)
RECURSIVE scanOldest(_, _, _, _)
scanOldest(c, i, oldestIndex, oldestTimestamp) ==
  IF i > Len(c) THEN oldestIndex
  ELSE IF c[i].timestamp < oldestTimestamp
  THEN scanOldest(c, i + 1, i, c[i].timestamp)
  ELSE scanOldest(c, i + 1, oldestIndex, oldestTimestamp)

evictOldestCacheEntry(c, t) ==
  LET oldest == scanOldest(c, 1, 0, t)
  IN  IF oldest # 0 /\ c[oldest].key # "" THEN RemoveAt(c, oldest) ELSE c

\* setCache_Unstamped stores the entry with the timestamp of the epoch.
setCache_Unstamped(c, key, data, t) ==
  LET c1 == IF Len(c) >= maxCacheSize THEN evictOldestCacheEntry(c, t) ELSE c
  IN  MapSet(c1, key, [data |-> data, timestamp |-> 0])

setCache(c, key, data, t) ==
  LET c1 == IF Len(c) >= maxCacheSize THEN evictOldestCacheEntry(c, t) ELSE c
  IN  MapSet(c1, key, [data |-> data, timestamp |-> t])

\* now - entry.timestamp >= cacheTimeout
isExpired(entry, t) == t - entry.timestamp >= cacheTimeout

cleanupCache(c, t) ==
  LET fresh(entry) == ~isExpired(entry, t)
  IN  SelectSeq(c, fresh)

(***************************************************************************)
(* Bounds and inputs.                                                      *)
(***************************************************************************)
MaxClock       == 2    \* SpecCache: the clock runs to MaxClock
MaxInflight    == 1    \* SpecCache: requests in flight at a time
ApiMaxInflight == 1    \* SpecApi: requests in flight at a time

Num(n) == [kind |-> "num", n |-> n]
NaN    == [kind |-> "nan", n |-> 0]
Inf    == [kind |-> "inf", n |-> 0]

LatestCall(base, symbols) ==
  [op |-> "latest", start |-> "", end |-> "", base |-> base, isArray |-> TRUE,
   symbols |-> symbols]

HistoricalCall(date, base, symbols) ==
  [op |-> "historical", start |-> date, end |-> "", base |-> base, isArray |-> TRUE,
   symbols |-> symbols]

TimeSeriesCall(start, end, base, symbols) ==
  [op |-> "timeseries", start |-> start, end |-> end, base |-> base, isArray |-> TRUE,
   symbols |-> symbols]

CurrenciesCall ==
  [op |-> "currencies", start |-> "", end |-> "", base |-> "", isArray |-> FALSE,
   symbols |-> <<>>]

ExchangeBody(base, rates) ==
  [isObject |-> TRUE, base |-> base, hasRates |-> TRUE, dateIsString |-> TRUE,
   date |-> "2024-12-24", rates |-> rates]

SeriesBody(base, rates) ==
  [isObject |-> TRUE, base |-> base, hasRates |-> TRUE, datesAreStrings |-> TRUE,
   start_date |-> "2024-12-01", end_date |-> "2024-12-20", rates |-> rates]

NamesBody(entries) == [isObject |-> TRUE, entries |-> entries]

\* A response that is not an object (null, a string, a number)
NotAnObject ==
  [isObject |-> FALSE, base |-> "", hasRates |-> FALSE, dateIsString |-> FALSE,
   datesAreStrings |-> FALSE, date |-> "", start_date |-> "", end_date |-> "",
   rates |-> <<>>, entries |-> <<>>]

\* SpecCache: one call of each public method, with arguments that need
\* sanitizing, answered with well-formed bodies
CacheCalls ==
  { LatestCall("eur", <<"usd">>),
    HistoricalCall("2024-12-20", "EUR", <<"USD">>),
    TimeSeriesCall("2024-12-01", "2024-12-20", "12", <<"USD">>),
    CurrenciesCall }

CacheBodies(q) ==
  CASE q.op = "latest" ->
         { ExchangeBody(q.base, <<[code |-> "USD", value |-> Num(3)]>>) }
    [] q.op = "historical" ->
         { ExchangeBody(q.base, <<[code |-> "USD", value |-> Num(2)]>>) }
    [] q.op = "timeseries" ->
         { SeriesBody(q.base, <<[date |-> "2024-12-02", isObject |-> TRUE,
                                 currencies |-> <<[code |-> "USD", value |-> Num(2)]>>]>>) }
    [] OTHER ->
         { NamesBody(<<[code |-> "USD", name |-> "US Dollar"]>>) }

\* SpecApi: the three rate methods, answered with bodies of every shape
ApiCalls ==
  { LatestCall("EUR", <<"USD", "GBP">>),
    HistoricalCall("2024-12-20", "usd", <<"GBP">>),
    TimeSeriesCall("2024-12-01", "", "12", <<"USD">>) }

\* USD is well-formed; "12" is no currency code; "gbpx" is one only after
\* sanitizing; the rates of JPY, CHF and CAD are not finite and positive
DirtyRates ==
  << [code |-> "USD", value |-> Num(2)],
     [code |-> "12", value |-> Num(7)],
     [code |-> "gbpx", value |-> Num(3)],
     [code |-> "JPY", value |-> Num(0)],
     [code |-> "CHF", value |-> NaN],
     [code |-> "CAD", value |-> Inf] >>

ApiBodies(q) ==
  CASE q.op \in {"latest", "historical"} ->
         { NotAnObject,
           ExchangeBody("", <<[code |-> "USD", value |-> Num(2)]>>),
           ExchangeBody("EUR", DirtyRates) }
    [] OTHER ->
         { NotAnObject,
           SeriesBody("EUR", <<[date |-> "2024-12-02", isObject |-> TRUE,
                                currencies |-> DirtyRates]>>) }

\* SpecRace: two calls of getLatestRates that build the same key, answered
\* with two different quotes
RaceMaxInflight == 2   \* SpecRace: requests in flight at a time

RaceCalls == { LatestCall("eur", <<"usd">>), LatestCall("EUR", <<"USD">>) }

RaceBodies(q) ==
  { ExchangeBody(q.base, <<[code |-> "USD", value |-> Num(3)]>>),
    ExchangeBody(q.base, <<[code |-> "USD", value |-> Num(4)]>>) }

AllCalls == CacheCalls \cup ApiCalls \cup RaceCalls

(***************************************************************************)
(* The request pipeline of getLatestRates, getHistoricalRate,              *)
(* getTimeSeries and getCurrencies:                                        *)
(*   getCached -> of(cached)                                               *)
(*   http.get -> retry -> map(validate) -> map(setCache) -> catchError     *)
(* A request in flight is q = [op, key, base, start, end, failures].       *)
(* out is [src, kind, op, key, data, purged, attempts]: src is where the   *)
(* value came from, kind what the subscriber got ("next+complete" or       *)
(* "error"; "pending" while nothing was delivered), purged whether the     *)
(* lookup deleted an entry, attempts how often http.get was subscribed to. *)
(***************************************************************************)
request(r) ==
  [op       |-> r.op,
   key      |-> cacheKey(r),
   base     |-> IF r.op = "currencies" THEN "" ELSE sanitizedBase(r),
   start    |-> IF r.op = "timeseries" THEN sanitizedStart(r) ELSE "",
   end      |-> IF r.op = "timeseries" THEN sanitizedEnd(r) ELSE "",
   failures |-> 0]

\* map(data => this.validate...(data, sanitizedBase))
validateResponse(q, body) ==
  CASE q.op \in {"latest", "historical"} -> validateExchangeRate(body, q.base)
    [] q.op = "timeseries"               -> validateHistoricalRate(body, q.base)
    [] OTHER                             -> validateCurrencies(body)

\* The argument of catchError
fallbackValue(q) ==
  CASE q.op \in {"latest", "historical"} -> createEmptyExchangeRate(q.base)
    [] q.op = "timeseries"               -> createEmptyHistoricalRate(q.base, q.start, q.end)
    [] OTHER                             -> EmptyMap

\* retry(this.retryAttempts): resubscribe while fewer than retryAttempts
\* retries were made
retries(q) == q.failures < retryAttempts

cachedEmission(q, data) ==
  [src |-> "cache", kind |-> "next+complete", op |-> q.op, key |-> q.key,
   data |-> data, purged |-> FALSE, attempts |-> 0]

missEmission(q, purged) ==
  [src |-> "none", kind |-> "pending", op |-> q.op, key |-> q.key,
   data |-> NoData, purged |-> purged, attempts |-> 1]

networkEmission(q, data) ==
  [src |-> "network", kind |-> "next+complete", op |-> q.op, key |-> q.key,
   data |-> data, purged |-> FALSE, attempts |-> q.failures + 1]

retryEmission(q) ==
  [src |-> "retry", kind |-> "pending", op |-> q.op, key |-> q.key,
   data |-> NoData, purged |-> FALSE, attempts |-> q.failures + 2]

\* catchError(() => fallback): the error is replaced by of(fallback).
\* fallbackEmission_Uncaught is the pipeline without catchError: the error
\* reaches the subscriber.
fallbackEmission_Uncaught(q) ==
  [src |-> "fallback", kind |-> "error", op |-> q.op, key |-> q.key,
   data |-> NoData, purged |-> FALSE, attempts |-> q.failures + 1]

fallbackEmission(q) ==
  [src |-> "fallback", kind |-> "next+complete", op |-> q.op, key |-> q.key,
   data |-> fallbackValue(q), purged |-> FALSE, attempts |-> q.failures + 1]

NoEmission ==
  [src |-> "none", kind |-> "pending", op |-> "", key |-> "", data |-> NoData,
   purged |-> FALSE, attempts |-> 0]

\* request(r) for the calls of the model, computed once
Prepared == [r \in AllCalls |-> request(r)]

\* A public method is called with r and subscribed to, with at most limit
\* requests in flight
\* Call_Shared is a service that joins a call to the request already in
\* flight for its key instead of sending its own.
Call_Shared(r, limit) ==
  LET q      == Prepared[r]
      cached == getCached(cache, q.key, now)
  IN  /\ cache' = cached.cache
      /\ IF cached.hit
         THEN /\ out' = cachedEmission(q, cached.data)
              /\ inflight' = inflight
         ELSE /\ BagCardinality(inflight) < limit
              /\ out' = missEmission(q, cached.purged)
              /\ inflight' = IF \E p \in BagToSet(inflight) : p.key = q.key
                             THEN inflight
                             ELSE inflight (+) SetToBag({q})
      /\ now' = now

Call(r, limit) ==
  LET q      == Prepared[r]
      cached == getCached(cache, q.key, now)
  IN  /\ cache' = cached.cache
      /\ IF cached.hit
         THEN /\ out' = cachedEmission(q, cached.data)
              /\ inflight' = inflight
         ELSE /\ BagCardinality(inflight) < limit
              /\ out' = missEmission(q, cached.purged)
              /\ inflight' = inflight (+) SetToBag({q})
      /\ now' = now

\* The response to request q arrives with a body
HttpOk(q, body) ==
  LET data == validateResponse(q, body)
  IN  /\ cache' = setCache(cache, q.key, data, now)
      /\ out' = networkEmission(q, data)
      /\ inflight' = inflight (-) SetToBag({q})
      /\ now' = now

\* Request q fails (HttpErrorResponse)
HttpError(q) ==
  /\ IF retries(q)
     THEN /\ inflight' = (inflight (-) SetToBag({q}))
                           (+) SetToBag({[q EXCEPT !.failures = @ + 1]})
          /\ out' = retryEmission(q)
     ELSE /\ inflight' = inflight (-) SetToBag({q})
          /\ out' = fallbackEmission(q)
  /\ UNCHANGED <<cache, now>>

\* Date.now() advances; nothing is called and nothing arrives
Tick ==
  /\ now < MaxClock
  /\ now' = now + 1
  /\ out' = NoEmission
  /\ UNCHANGED <<cache, inflight>>

\* The constructor runs cleanupCache on the new, empty map
ApiInit ==
  /\ now = 0
  /\ cache = cleanupCache(<<>>, 0)
  /\ inflight = EmptyBag
  /\ out = NoEmission

(***************************************************************************)
(* Cache keys of two requests that differ in the order of their symbols.   *)
(***************************************************************************)
KeyMaxSymbols == 2    \* symbol lists of up to KeyMaxSymbols codes

KeySymbols == {"USD", "gbp", "JPY"}
KeyBases   == {"EUR", "usd"}

SymbolLists == UNION { [1..n -> KeySymbols] : n \in 0..KeyMaxSymbols }

KeyCalls ==
  UNION { { LatestCall(b, l),
            HistoricalCall("2024-12-20", b, l),
            TimeSeriesCall("2024-12-01", "2024-12-20", b, l) }
          : b \in KeyBases, l \in SymbolLists }

\* t lists the elements of s in some order
IsPermutation(s, t) ==
  /\ Len(s) = Len(t)
  /\ \E p \in Permutations(1..Len(s)) : \A i \in 1..Len(s) : t[i] = s[p[i]]

\* Request r and a request that differs from it in the order of the symbols
KeyPairs ==
  UNION { { <<r, [r EXCEPT !.symbols = t]>>
            : t \in { u \in SymbolLists : IsPermutation(r.symbols, u) } }
          : r \in KeyCalls }

\* The cache keys of the two requests are built
BuildKeys ==
  /\ keyReq # <<>>
  /\ keyOut = <<>>
  /\ keyOut' = <<cacheKey(keyReq[1]), cacheKey(keyReq[2])>>
  /\ UNCHANGED keyReq

KeyInit ==
  /\ keyReq \in KeyPairs
  /\ keyOut = <<>>

\* No requests to compare
KeyIdle ==
  /\ keyReq = <<>>
  /\ keyOut = <<>>

(***************************************************************************)
(* RatesTableComponent: the search box (searchSubject -> debounceTime ->   *)
(* distinctUntilChanged -> subscriber), clearFilters and the pager. A      *)
(* timer that is due runs before anything else happens. All filters are    *)
(* off; the rows are loaded.                                               *)
(***************************************************************************)
searchDebounce == 3    \* debounceTime(300), in units of 100 ms
pageSize       == 1    \* signal(25) in the source
TableMaxPage   == 3    \* goToPage is called with 0..TableMaxPage

LowerOf ==
  [c \in UpperLetters |->
     CharAt(LowerAlphabet, CHOOSE i \in 1..Len(UpperAlphabet) : CharAt(UpperAlphabet, i) = c)]

RECURSIVE toLowerCase(_)
toLowerCase(s) ==
  IF Len(s) = 0 THEN ""
  ELSE (IF CharAt(s, 1) \in UpperLetters THEN LowerOf[CharAt(s, 1)] ELSE CharAt(s, 1))
         \o toLowerCase(Tail(s))

\* String.prototype.includes
includes(s, sub) ==
  \E i \in 1..(Len(s) - Len(sub) + 1) : SubSeq(s, i, i + Len(sub) - 1) = sub

\* s.replace(/[^A-Z]/gi, '')
RECURSIVE keepLetters(_)
keepLetters(s) ==
  IF Len(s) = 0 THEN ""
  ELSE (IF CharAt(s, 1) \in UpperLetters \cup LowerLetters THEN CharAt(s, 1) ELSE "")
         \o keepLetters(Tail(s))

\* sanitizeCurrencyCode of the rates table
tableSanitizeCurrencyCode(code) ==
  IF code = "" THEN "" ELSE slice(toUpperCase(keepLetters(code)), 3)

sanitizeInput(input) ==
  IF input = "" THEN "" ELSE trim(stripMarkup(input))

NoFilters ==
  [minChange |-> Null, maxChange |-> Null, onlyGainers |-> FALSE, onlyLosers |-> FALSE,
   favoritesOnly |-> FALSE, minRate |-> Null, maxRate |-> Null]

TableRows ==
  << [code |-> "USD", name |-> "US Dollar"],
     [code |-> "EUR", name |-> "Euro"],
     [code |-> "GBP", name |-> "British Pound"] >>

\* What is typed into the search box
SearchInputs == {"", "eur", "<eur>", " us"}

\* filteredCurrencies with every filter off and no sort column
filteredCurrencies(rows, term0) ==
  LET term == trim(toLowerCase(term0))
      sanitizedTerm == sanitizeInput(term)
      matches(c) ==
        \/ includes(tableSanitizeCurrencyCode(c.code), sanitizedTerm)
        \/ includes(sanitizeInput(toLowerCase(c.name)), sanitizedTerm)
  IN  IF term # "" THEN SelectSeq(rows, matches) ELSE rows

Max(a, b) == IF a > b THEN a ELSE b
Min(a, b) == IF a < b THEN a ELSE b

\* c.change24h ?? 0 and c.changePercent24h ?? 0
change24hOf(c)        == IF "change24h" \in DOMAIN c THEN c.change24h ELSE 0
changePercent24hOf(c) == IF "changePercent24h" \in DOMAIN c THEN c.changePercent24h ELSE 0

\* The filters of filteredCurrencies after the search term
applyFilters(rows, filterOpts, favorites) ==
  LET keep(c) ==
        /\ filterOpts.minChange # Null => changePercent24hOf(c) >= filterOpts.minChange
        /\ filterOpts.maxChange # Null => changePercent24hOf(c) <= filterOpts.maxChange
        /\ filterOpts.onlyGainers => change24hOf(c) > 0
        /\ filterOpts.onlyLosers => change24hOf(c) < 0
        /\ filterOpts.favoritesOnly => \E i \in 1..Len(favorites) : favorites[i] = c.code
        /\ filterOpts.minRate # Null => c.rate >= filterOpts.minRate
        /\ filterOpts.maxRate # Null => c.rate <= filterOpts.maxRate
  IN  SelectSeq(rows, keep)

\* The rows of the filteredCurrencies signal; applySorting only reorders them
filteredRows ==
  applyFilters(filteredCurrencies(currencies, searchTerm), filters, tableFavorites)

\* filtered.slice(start, end) of the paginatedCurrencies signal
paginatedRows ==
  LET start == (currentPage - 1) * pageSize
  IN  SubSeq(filteredRows, start + 1, Min(start + pageSize, Len(filteredRows)))

\* Math.ceil(filtered.length / size)
totalPages == (Len(filteredRows) + pageSize - 1) \div pageSize

\* The debounce timer of the search box has run out
SearchDue == searchPending # NoValue /\ searchTimer = 0

updateSearchTerm(value) ==
  /\ ~SearchDue
  /\ searchPending' = sanitizeInput(value)
  /\ searchTimer' = searchDebounce
  /\ UNCHANGED <<searchTerm, currentPage, currencies, filters, searchLast>>

\* 100 ms pass while the debounce timer runs
TableTick ==
  /\ searchPending # NoValue
  /\ searchTimer > 0
  /\ searchTimer' = searchTimer - 1
  /\ UNCHANGED <<searchTerm, currentPage, currencies, filters, searchPending, searchLast>>

\* debounceTime emits the pending value; distinctUntilChanged lets it
\* through when it differs from the last value it let through; the
\* subscriber sets searchTerm and currentPage
SearchFire ==
  /\ SearchDue
  /\ searchPending' = NoValue
  /\ searchTimer' = 0
  /\ IF searchLast = NoValue \/ searchPending # searchLast
     THEN /\ searchLast' = searchPending
          /\ searchTerm' = searchPending
          /\ currentPage' = 1
     ELSE UNCHANGED <<searchLast, searchTerm, currentPage>>
  /\ UNCHANGED <<currencies, filters>>

clearFilters ==
  /\ ~SearchDue
  /\ filters' = NoFilters
  /\ searchTerm' = ""
  /\ currentPage' = 1
  /\ UNCHANGED <<currencies, searchPending, searchTimer, searchLast>>

goToPage(page) ==
  /\ ~SearchDue
  /\ currentPage' = Max(1, Min(page, totalPages))
  /\ UNCHANGED <<searchTerm, currencies, filters, searchPending, searchTimer, searchLast>>

previousPage ==
  /\ ~SearchDue
  /\ currentPage > 1
  /\ currentPage' = currentPage - 1
  /\ UNCHANGED <<searchTerm, currencies, filters, searchPending, searchTimer, searchLast>>

nextPage ==
  /\ ~SearchDue
  /\ currentPage < totalPages
  /\ currentPage' = currentPage + 1
  /\ UNCHANGED <<searchTerm, currencies, filters, searchPending, searchTimer, searchLast>>

\* The table after the constructor and the first load of the rows
TableInit ==
  /\ searchTerm = ""
  /\ currentPage = 1
  /\ currencies = TableRows
  /\ filters = NoFilters
  /\ searchPending = NoValue
  /\ searchTimer = 0
  /\ searchLast = NoValue

\* A value of localStorage: no item, an item that is not JSON, a JSON
\* value that is not an array, or a JSON array
NoItem       == [kind |-> "none",   items |-> <<>>]
NotJson      == [kind |-> "text",   items |-> <<>>]
JsonObject   == [kind |-> "object", items |-> <<>>]
JsonArray(a) == [kind |-> "array",  items |-> a]

\* updateFilter(key, value)
updateFilter(key, value) ==
  /\ ~SearchDue
  /\ filters' = [filters EXCEPT ![key] = value]
  /\ currentPage' = 1
  /\ UNCHANGED <<searchTerm, currencies, searchPending, searchTimer, searchLast>>
  /\ UNCHANGED pagerVars

\* sort(column)
sort(column) ==
  LET sanitizedColumn == sanitizeInput(column)
  IN  /\ ~SearchDue
      /\ sanitizedColumn \in {"code", "rate"}
      /\ IF sortColumn = column
         THEN /\ sortDirection' = IF sortDirection = "asc" THEN "desc" ELSE "asc"
              /\ UNCHANGED sortColumn
         ELSE /\ sortColumn' = column
              /\ sortDirection' = "asc"
      /\ currentPage' = 1
      /\ UNCHANGED <<searchTerm, currencies, filters, searchPending, searchTimer, searchLast,
                     tableFavorites, tableFavoritesStorage, tableLoading, tableError, tableLog>>

\* toggleFavorite(code) of the table, with saveFavorites
tableToggleFavorite(code) ==
  LET sanitizedCode == tableSanitizeCurrencyCode(code)
      other(c)      == c # sanitizedCode
  IN  /\ ~SearchDue
      /\ sanitizedCode # ""
      /\ tableFavorites' =
           IF \E i \in 1..Len(tableFavorites) : tableFavorites[i] = sanitizedCode
           THEN SelectSeq(tableFavorites, other)
           ELSE Append(tableFavorites, sanitizedCode)
      /\ tableFavoritesStorage' = JsonArray(tableFavorites')
      /\ UNCHANGED tableVars
      /\ UNCHANGED <<sortColumn, sortDirection, tableLoading, tableError, tableLog>>

\* loadRates(): a new subscription to getCurrencyData
loadRates ==
  /\ ~SearchDue
  /\ ~tableLoading
  /\ tableLoading' = TRUE
  /\ tableError' = Null
  /\ UNCHANGED tableVars
  /\ UNCHANGED <<tableFavorites, tableFavoritesStorage, sortColumn, sortDirection, tableLog>>

\* getCurrencyData delivers a list: the next handler of loadRates
ratesNext(data) ==
  /\ ~SearchDue
  /\ tableLoading
  /\ currencies' = data
  /\ tableLoading' = FALSE
  /\ UNCHANGED <<searchTerm, currentPage, filters, searchPending, searchTimer, searchLast>>
  /\ UNCHANGED <<tableFavorites, tableFavoritesStorage, sortColumn, sortDirection,
                 tableError, tableLog>>

\* The table after the constructor (nothing stored) and the first load
PagerInit ==
  /\ tableFavorites = <<>>
  /\ tableFavoritesStorage = NoItem
  /\ sortColumn = Null
  /\ sortDirection = "asc"
  /\ tableLoading = FALSE
  /\ tableError = Null
  /\ tableLog = "none"

(***************************************************************************)
(* CurrencyConverterComponent: the inputs, the debounced convertSubject    *)
(* (a Subject<void>: every emission is undefined) and convert().           *)
(***************************************************************************)
convertDebounce == 3    \* debounceTime(300), in units of 100 ms

\* sanitizeCurrencyCode of the converter
converterSanitizeCurrencyCode(code) ==
  IF code = "" THEN ""
  ELSE LET sanitized == slice(toUpperCase(trim(code)), 3)
       IN  IF isValidCurrencyCode(sanitized) THEN sanitized ELSE ""

\* What the user enters
AmountInputs == {Num(0), Num(2), Num(0 - 1), NaN}
CodeInputs   == {"usd", "GBP", "x1"}

\* The debounce timer of the converter has run out
ConvertDue == convertPending /\ convertTimer = 0

\* convert(): convertLog is what the call read
convert == [amount |-> amount,
            from   |-> converterSanitizeCurrencyCode(fromCurrency),
            to     |-> converterSanitizeCurrencyCode(toCurrency)]

\* this.convertSubject.next()
convertSubjectNext ==
  /\ convertPending' = TRUE
  /\ convertTimer' = convertDebounce

updateAmount(value) ==
  /\ ~ConvertDue
  /\ amount' = IF value.kind = "num" /\ value.n >= 0 THEN value.n ELSE 0
  /\ convertSubjectNext
  /\ UNCHANGED <<fromCurrency, toCurrency, convertLast, convertLog>>

updateFromCurrency(code) ==
  /\ ~ConvertDue
  /\ converterSanitizeCurrencyCode(code) # ""
  /\ fromCurrency' = converterSanitizeCurrencyCode(code)
  /\ convertSubjectNext
  /\ UNCHANGED <<amount, toCurrency, convertLast, convertLog>>

updateToCurrency(code) ==
  /\ ~ConvertDue
  /\ converterSanitizeCurrencyCode(code) # ""
  /\ toCurrency' = converterSanitizeCurrencyCode(code)
  /\ convertSubjectNext
  /\ UNCHANGED <<amount, fromCurrency, convertLast, convertLog>>

\* A signal that holds no number
NoNumber == [kind |-> "null", n |-> 0]

\* convert(), called when the amount and the codes are amt, from and to:
\* it clears the result for an amount that is not positive; otherwise it
\* subscribes to the rates of the pair it has read
convertCall(amt, from, to) ==
  /\ convertLog' = [amount |-> amt,
                    from   |-> converterSanitizeCurrencyCode(from),
                    to     |-> converterSanitizeCurrencyCode(to)]
  /\ IF amt <= 0
     THEN /\ result' = NoNumber
          /\ exchangeRate' = NoNumber
          /\ UNCHANGED <<convRequests, convertCalls>>
     ELSE /\ convRequests' = Append(convRequests, [fromCode |-> convertLog'.from,
                                                   toCode   |-> convertLog'.to])
          /\ convertCalls' = convertCalls + 1
          /\ UNCHANGED <<result, exchangeRate>>
  /\ UNCHANGED <<conversionHistory, historyStorage>>

\* 100 ms pass while the debounce timer runs
ConvTick ==
  /\ convertPending
  /\ convertTimer > 0
  /\ convertTimer' = convertTimer - 1
  /\ UNCHANGED <<amount, fromCurrency, toCurrency, convertPending, convertLast, convertLog>>

\* debounceTime emits undefined; distinctUntilChanged lets it through when
\* it differs from the last value it let through; the subscriber calls
\* convert()
ConvertFire ==
  /\ ConvertDue
  /\ convertPending' = FALSE
  /\ convertTimer' = 0
  /\ IF convertLast = NoValue \/ Null # convertLast
     THEN /\ convertLast' = Null
          /\ convertCall(amount, fromCurrency, toCurrency)
     ELSE UNCHANGED <<convertLast, convertLog, histVars>>
  /\ UNCHANGED <<amount, fromCurrency, toCurrency>>

\* The converter after the constructor and ngOnInit, which calls convert()
ConvInit ==
  /\ amount = 1
  /\ fromCurrency = "EUR"
  /\ toCurrency = "USD"
  /\ convertPending = FALSE
  /\ convertTimer = 0
  /\ convertLast = NoValue
  /\ convertLog = [amount |-> 1, from |-> "EUR", to |-> "USD"]

(***************************************************************************)
(* CurrencyConverterComponent: the callers of convert() that do not wait   *)
(* for the debounce, the handler of the response, the conversion history   *)
(* and the favorites, both kept in localStorage. A rate is a whole number. *)
(***************************************************************************)
historyLimit    == 20   \* [conversion, ...history].slice(0, 20)
favoritesLimit  == 10   \* favorites.length < 10
MaxConvertCalls == 3    \* requests that convert() issues in one run
ConvMaxRequests == 2    \* requests of convert() in flight at a time

\* The rate the server quotes for a pair
Rate(from, to) == IF from = to THEN 1 ELSE IF from = "EUR" THEN 2 ELSE 3

\* What the service delivers to a request: the quote, the empty rates it
\* falls back to, or nothing (of(null) after an error)
ConvertBodies(req) ==
  { [kind |-> "data", rates |-> Put(EmptyMap, req.toCode, Rate(req.fromCode, req.toCode))],
    [kind |-> "data", rates |-> EmptyMap],
    [kind |-> "null", rates |-> EmptyMap] }

\* addToHistory(conversion): the history and the item stored
addToHistory(conversion) ==
  LET history == SubSeq(<<conversion>> \o conversionHistory, 1,
                        Min(historyLimit, Len(conversionHistory) + 1))
  IN  [history |-> history, storage |-> JsonArray(history)]

\* The next handler of the subscription convert() made for req, given
\* data: the signals, the history and the stored item after it
convertNext_PairGuard(req, data) ==
  LET rate == IF req.toCode \in DOMAIN data.rates THEN data.rates[req.toCode] ELSE 0
      same == [result |-> result, exchangeRate |-> exchangeRate,
               history |-> conversionHistory, storage |-> historyStorage]
  IN  IF /\ data.kind = "data"
         /\ rate > 0
         /\ req.fromCode = fromCurrency
         /\ req.toCode = toCurrency
      THEN LET converted == amount * rate
               added == addToHistory([from |-> req.fromCode, to |-> req.toCode,
                                      amount |-> amount, result |-> converted,
                                      rate |-> rate, date |-> Num(now)])
           IN  [result |-> Num(converted), exchangeRate |-> Num(rate),
                history |-> added.history, storage |-> added.storage]
      ELSE same

convertNext(req, data) ==
  LET rate == IF req.toCode \in DOMAIN data.rates THEN data.rates[req.toCode] ELSE 0
      same == [result |-> result, exchangeRate |-> exchangeRate,
               history |-> conversionHistory, storage |-> historyStorage]
  IN  IF data.kind = "data" /\ rate > 0
      THEN LET converted == amount * rate
               added == addToHistory([from |-> req.fromCode, to |-> req.toCode,
                                      amount |-> amount, result |-> converted,
                                      rate |-> rate, date |-> Num(now)])
           IN  [result |-> Num(converted), exchangeRate |-> Num(rate),
                history |-> added.history, storage |-> added.storage]
      ELSE same

\* The response to the i-th request in flight arrives
ConvertResponse(i, data) ==
  LET after == convertNext(convRequests[i], data)
  IN  /\ convRequests' = RemoveAt(convRequests, i)
      /\ result' = after.result
      /\ exchangeRate' = after.exchangeRate
      /\ conversionHistory' = after.history
      /\ historyStorage' = after.storage
      /\ UNCHANGED <<convVars, convertCalls>>

\* convert() may issue one more request
MayConvert == convertCalls < MaxConvertCalls /\ Len(convRequests) < ConvMaxRequests

swapCurrencies ==
  /\ MayConvert
  /\ fromCurrency' = toCurrency
  /\ toCurrency' = fromCurrency
  /\ convertCall(amount, toCurrency, fromCurrency)
  /\ UNCHANGED <<amount, convertPending, convertTimer, convertLast>>

setAmountPreset(value) ==
  /\ MayConvert
  /\ IF value.kind = "num" /\ value.n > 0
     THEN /\ amount' = value.n
          /\ convertCall(value.n, fromCurrency, toCurrency)
     ELSE UNCHANGED <<amount, convertLog, histVars>>
  /\ UNCHANGED <<fromCurrency, toCurrency, convertPending, convertTimer, convertLast>>

clearHistory ==
  /\ conversionHistory' = <<>>
  /\ historyStorage' = NoItem
  /\ UNCHANGED <<convVars, result, exchangeRate, convRequests, convertCalls>>

\* loadHistory(): the history the constructor sets from the stored item
loadHistory(saved) ==
  IF saved.kind = "array"
  THEN SelectSeq(saved.items, LAMBDA h : h.date.kind = "num")
  ELSE <<>>

\* A conversion found in the store, made at time d
StoredEntry(d) ==
  [from |-> "EUR", to |-> "USD", amount |-> 1, result |-> 2, rate |-> 2, date |-> d]

\* The stored histories the component is constructed with
StoredHistories ==
  { NoItem, NotJson, JsonObject,
    JsonArray(<<>>),
    JsonArray(<<StoredEntry(NaN), StoredEntry(Num(0 - 1))>>),
    JsonArray(<<StoredEntry(Num(0 - 2)), StoredEntry(Num(0 - 1))>>),
    JsonArray([i \in 1..(historyLimit - 1) |-> StoredEntry(Num(0 - 1))]),
    JsonArray([i \in 1..(historyLimit + 1) |-> StoredEntry(Num(0 - 1))]) }

\* The converter after the constructor, which loads the history, and
\* ngOnInit, which calls convert()
HistInit(saved) ==
  /\ result = NoNumber
  /\ exchangeRate = NoNumber
  /\ convRequests = <<[fromCode |-> "EUR", toCode |-> "USD"]>>
  /\ convertCalls = 1
  /\ conversionHistory = loadHistory(saved)
  /\ historyStorage = saved

HistIdle == HistInit(NoItem)

\* The favorites before anything is loaded
DefaultFavorites == <<"USD", "GBP", "JPY", "CHF", "AUD">>

\* loadFavorites(): the favorites ngOnInit sets from the stored item, whose
\* items are strings
loadFavorites(saved) ==
  IF saved.kind = "array"
  THEN LET favorites == SelectSeq(saved.items, isValidCurrencyCode)
       IN  IF Len(favorites) > 0 THEN favorites ELSE DefaultFavorites
  ELSE DefaultFavorites

toggleFavorite(currency) ==
  LET sanitized == converterSanitizeCurrencyCode(currency)
      favorites == favoriteCurrencies
      present   == \E i \in 1..Len(favorites) : favorites[i] = sanitized
  IN  IF sanitized = ""
      THEN UNCHANGED favVars
      ELSE /\ favoriteCurrencies' =
                IF present THEN SelectSeq(favorites, LAMBDA c : c # sanitized)
                ELSE IF Len(favorites) < favoritesLimit THEN Append(favorites, sanitized)
                ELSE favorites
           /\ favoritesStorage' = JsonArray(favoriteCurrencies')

\* The codes the user toggles
FavoriteInputs == {"usd", "EUR", "x1", "PLN", "aud"}

\* Eleven codes, all well formed
ManyCodes ==
  <<"USD", "GBP", "JPY", "CHF", "AUD", "CAD", "NZD", "SEK", "NOK", "DKK", "PLN">>

\* The stored favorites ngOnInit finds
StoredFavorites ==
  { NoItem, NotJson, JsonObject,
    JsonArray(<<>>),
    JsonArray(<<"usd", "EURO", "CAD">>),
    JsonArray(<<"CAD", "CAD">>),
    JsonArray(SubSeq(ManyCodes, 1, favoritesLimit - 1)),
    JsonArray(SubSeq(ManyCodes, 1, favoritesLimit)),
    JsonArray(SubSeq(ManyCodes, 1, favoritesLimit + 1)) }

FavInit(saved) ==
  /\ favoriteCurrencies = loadFavorites(saved)
  /\ favoritesStorage = saved

FavIdle == FavInit(NoItem)

(***************************************************************************)
(* The numbers of the rate statistics. A finite number is an exact         *)
(* fraction n/d in lowest terms with d > 0; the other values are NaN,      *)
(* Infinity (of either sign) and null. The operators are those of          *)
(* JavaScript: a NaN operand gives NaN, 0/0 is NaN, x/0 is infinite, a     *)
(* comparison with NaN is false.                                           *)
(***************************************************************************)
RECURSIVE Gcd(_, _)
Gcd(a, b) == IF b = 0 THEN a ELSE Gcd(b, a % b)

Abs(n) == IF n < 0 THEN 0 - n ELSE n

Q(n, d) ==
  LET s == IF d < 0 THEN 0 - 1 ELSE 1
      g == Gcd(Abs(n), Abs(d))
  IN  [kind |-> "num", n |-> (s * n) \div g, d |-> (s * d) \div g]

Absent == [kind |-> "null", n |-> 0, d |-> 1]
QNaN   == [kind |-> "nan",  n |-> 0, d |-> 1]
QInf   == [kind |-> "inf",  n |-> 1, d |-> 1]

\* typeof v === 'number' && isFinite(v)
isFiniteNumber(v) == v.kind = "num"

\* The sum and the difference are computed over the least common
\* denominator and the product is reduced crosswise, which keeps the
\* numbers of the model small
QAdd(a, b) ==
  IF a.kind = "num" /\ b.kind = "num"
  THEN LET g == Gcd(a.d, b.d)
       IN  Q(a.n * (b.d \div g) + b.n * (a.d \div g), (a.d \div g) * b.d)
  ELSE QNaN

QSub(a, b) == QAdd(a, [b EXCEPT !.n = 0 - b.n])

QMul(a, b) ==
  IF a.kind = "num" /\ b.kind = "num"
  THEN LET g == Gcd(Abs(a.n), b.d)
           h == Gcd(Abs(b.n), a.d)
       IN  Q((a.n \div g) * (b.n \div h), (a.d \div h) * (b.d \div g))
  ELSE QNaN

QDiv(a, b) ==
  IF a.kind = "num" /\ b.kind = "num"
  THEN IF b.n # 0 THEN QMul(a, Q(b.d, b.n))
       ELSE IF a.n = 0 THEN QNaN ELSE QInf
  ELSE QNaN

\* a < b and a > b
QLess(a, b)    == a.kind = "num" /\ b.kind = "num" /\ a.n * b.d < b.n * a.d
QGreater(a, b) == QLess(b, a)

\* values.reduce((a, b) => a + b, 0)
RECURSIVE QSum(_)
QSum(values) ==
  IF Len(values) = 0 THEN Q(0, 1)
  ELSE QAdd(QSum(SubSeq(values, 1, Len(values) - 1)), values[Len(values)])

\* Math.max(...values) and Math.min(...values) of a sequence that is not empty
RECURSIVE QMax(_)
QMax(values) ==
  IF Len(values) = 1 THEN values[1]
  ELSE LET m == QMax(Tail(values))
       IN  IF QLess(values[1], m) THEN m ELSE values[1]

RECURSIVE QMin(_)
QMin(values) ==
  IF Len(values) = 1 THEN values[1]
  ELSE LET m == QMin(Tail(values))
       IN  IF QLess(m, values[1]) THEN m ELSE values[1]

\* The largest r in lo..hi with r * r <= n
RECURSIVE Isqrt(_, _, _)
Isqrt(n, lo, hi) ==
  IF lo = hi THEN lo
  ELSE LET mid == (lo + hi + 1) \div 2
       IN  IF mid * mid <= n THEN Isqrt(n, mid, hi) ELSE Isqrt(n, lo, mid - 1)

\* Math.sqrt(v), to three decimal places; exact when v is the square of
\* such a number
QSqrt(v) ==
  IF v.kind # "num" THEN v
  ELSE IF v.n < 0 THEN QNaN
  ELSE Q(Isqrt((v.n * 1000000) \div v.d, 0, 46340), 1000)

(***************************************************************************)
(* CurrencyService.getCurrencyData: the function that maps the latest and  *)
(* the prior-day rates to the entries of the selected symbols.             *)
(***************************************************************************)
\* Nothing was applied yet
NotApplied == [fn |-> "none", value |-> <<>>]

CalcIdle ==
  /\ calcIn = [fn |-> "none"]
  /\ calcOut = NotApplied

\* sanitizeCurrencyArray of CurrencyService
selectSymbols(codes) ==
  LET unique == sanitizeCurrencyArray(TRUE, codes)
  IN  IF Len(unique) > 0 THEN unique ELSE <<"USD">>

\* currencyMap[code] || code
nameOf(currencyMap, code) ==
  IF code \in DOMAIN currencyMap /\ currencyMap[code] # "" THEN currencyMap[code] ELSE code

\* Number(value) is finite and positive
isValidRate(v) == v.kind = "num" /\ v.n > 0

\* One turn of the loop: the entries with the entry of code, when it has one.
\* currencyData_PercentOfCurrent relates the change to the current rate.
currencyData_PercentOfCurrent(entries, code, latest, historical, currencyMap) ==
  IF code \notin DOMAIN latest.rates \/ code \notin DOMAIN historical.rates THEN entries
  ELSE LET currentRate  == latest.rates[code]
           previousRate == historical.rates[code]
           change        == QSub(currentRate, previousRate)
           changePercent == QMul(QDiv(change, currentRate), Q(100, 1))
       IN  IF ~isValidRate(currentRate) \/ ~isValidRate(previousRate) THEN entries
           ELSE Append(entries,
                  [code |-> sanitizeCurrencyCode(code),
                   name |-> sanitizeString(nameOf(currencyMap, code)),
                   rate |-> currentRate,
                   change24h |-> IF isFiniteNumber(change) THEN change ELSE Absent,
                   changePercent24h |->
                     IF isFiniteNumber(changePercent) THEN changePercent ELSE Absent])

currencyData(entries, code, latest, historical, currencyMap) ==
  IF code \notin DOMAIN latest.rates \/ code \notin DOMAIN historical.rates THEN entries
  ELSE LET currentRate  == latest.rates[code]
           previousRate == historical.rates[code]
           change        == QSub(currentRate, previousRate)
           changePercent == IF previousRate.n # 0
                            THEN QMul(QDiv(change, previousRate), Q(100, 1))
                            ELSE Q(0, 1)
       IN  IF ~isValidRate(currentRate) \/ ~isValidRate(previousRate) THEN entries
           ELSE Append(entries,
                  [code |-> sanitizeCurrencyCode(code),
                   name |-> sanitizeString(nameOf(currencyMap, code)),
                   rate |-> currentRate,
                   change24h |-> IF isFiniteNumber(change) THEN change ELSE Absent,
                   changePercent24h |->
                     IF isFiniteNumber(changePercent) THEN changePercent ELSE Absent])

\* The loop over sanitizedSymbols
RECURSIVE currencyDataLoop(_, _, _, _)
currencyDataLoop(symbols, latest, historical, currencyMap) ==
  IF Len(symbols) = 0 THEN <<>>
  ELSE currencyData(currencyDataLoop(SubSeq(symbols, 1, Len(symbols) - 1),
                                     latest, historical, currencyMap),
                    symbols[Len(symbols)], latest, historical, currencyMap)

\* The map of getCurrencyData: latest and historical are [isNull, rates],
\* of(null) after an error
getCurrencyData(symbols, latest, historical, currencyMap) ==
  IF latest.isNull \/ historical.isNull THEN <<>>
  ELSE currencyDataLoop(selectSymbols(symbols), latest, historical, currencyMap)

\* The inputs: the selected symbols, the rates of USD and GBP in either
\* response, and the names
DataSymbols == { <<"USD", "GBP", "JPY">>, <<"gbp", "USD", "usd">>, <<"GBP">>, <<"x1", "USD">> }
DataValues  == { Q(11, 10), Q(1, 1), Q(0, 1), QNaN }
DataRates   ==
  {[isNull |-> TRUE, rates |-> EmptyMap]} \cup
  { [isNull |-> FALSE, rates |-> m] :
      m \in UNION { [S -> DataValues] : S \in SUBSET {"USD", "GBP"} } }
DataNames   == Put(EmptyMap, "USD", " US <Dollar> ")

DataInputs ==
  { [fn |-> "getCurrencyData", symbols |-> s, latest |-> l, historical |-> h] :
      s \in DataSymbols, l \in DataRates, h \in DataRates }

ApplyCurrencyData ==
  /\ calcOut = NotApplied
  /\ calcOut' = [fn |-> "getCurrencyData",
                 value |-> getCurrencyData(calcIn.symbols, calcIn.latest,
                                           calcIn.historical, DataNames)]
  /\ UNCHANGED calcIn

(***************************************************************************)
(* CurrencyChartComponent: the moving averages. A series is a sequence of  *)
(* numbers and nulls; index i of the code is index i + 1 here.             *)
(***************************************************************************)
MaxSeriesLen == 4    \* the longest series drawn from SeriesValues

\* Math.max(2, Math.min(100, period))
validPeriod(period) == Max(2, Min(100, period))

\* The values of a series that are numbers and finite
finiteValues(values) == SelectSeq(values, isFiniteNumber)

\* sum / values.length
mean(values) == QDiv(QSum(values), Q(Len(values), 1))

\* calculateMA_OverPeriod divides the sum by the period
calculateMA_OverPeriod(data, period) ==
  [i \in 1..Len(data) |->
     IF i - 1 < validPeriod(period) - 1 THEN Absent
     ELSE LET window == finiteValues(SubSeq(data, i - validPeriod(period) + 1, i))
          IN  IF Len(window) > 0
              THEN QDiv(QSum(window), Q(validPeriod(period), 1))
              ELSE Absent]

calculateMA(data, period) ==
  [i \in 1..Len(data) |->
     IF i - 1 < validPeriod(period) - 1 THEN Absent
     ELSE LET window == finiteValues(SubSeq(data, i - validPeriod(period) + 1, i))
          IN  IF Len(window) > 0 THEN mean(window) ELSE Absent]

\* The loop of calculateEMA after its first i turns: the result and ema
RECURSIVE emaLoop(_, _, _)
emaLoop(data, period, i) ==
  IF i = 0 THEN [result |-> <<>>, ema |-> Absent]
  ELSE LET before      == emaLoop(data, period, i - 1)
           multiplier  == Q(2, validPeriod(period) + 1)
           firstValues == finiteValues(SubSeq(data, 1, Min(validPeriod(period), i)))
           ema == IF before.ema = Absent
                  THEN IF Len(firstValues) > 0 THEN mean(firstValues) ELSE Absent
                  ELSE QAdd(QMul(QSub(data[i], before.ema), multiplier), before.ema)
       IN  IF ~isFiniteNumber(data[i])
           THEN [result |-> Append(before.result, Absent), ema |-> before.ema]
           ELSE [result |-> Append(before.result, ema), ema |-> ema]

calculateEMA(data, period) == emaLoop(data, period, Len(data)).result

\* The series and the periods the indicators are applied to
SeriesValues == {Absent, Q(1, 1), Q(3, 1)}

IndicatorSeries ==
  UNION { [1..n -> SeriesValues] : n \in 0..MaxSeriesLen }
    \cup { <<Q(1, 1), Q(2, 1), Q(3, 1), Q(4, 1), Q(5, 1)>>, <<QNaN, Q(2, 1), QInf, Q(4, 1)>> }

IndicatorInputs ==
  { [fn |-> "indicator", data |-> d, period |-> p] :
      d \in IndicatorSeries, p \in {1, 2, 3, 101} }

ApplyMA ==
  /\ calcOut = NotApplied
  /\ calcOut' = [fn |-> "calculateMA", value |-> calculateMA(calcIn.data, calcIn.period)]
  /\ UNCHANGED calcIn

ApplyEMA ==
  /\ calcOut = NotApplied
  /\ calcOut' = [fn |-> "calculateEMA", value |-> calculateEMA(calcIn.data, calcIn.period)]
  /\ UNCHANGED calcIn

(***************************************************************************)
(* CurrencyAnalyticsCardComponent and the metrics of CurrencyChartComponent *)
(***************************************************************************)
\* The signals of the card and of the chart before anything is loaded
NoAnalytics ==
  [weekHigh |-> Absent, weekLow |-> Absent, monthHigh |-> Absent, monthLow |-> Absent,
   volatility |-> Absent, trend |-> "neutral", avg7Days |-> Absent, avg30Days |-> Absent]

NoMetrics == [isNull |-> TRUE]

StatIdle ==
  /\ analytics = NoAnalytics
  /\ analyticsLoad = [done |-> FALSE, week |-> <<>>, month |-> <<>>]
  /\ metrics = NoMetrics
  /\ chartData = [isNull |-> TRUE, rates |-> <<>>]

\* extractRates of the card and the map and filter of calculateMetrics:
\* the values of the days, in the order of the dates, that are numbers,
\* finite and positive
extractRates(days) == SelectSeq(days, isValidRate)

\* The mean of the squares of the distances to average
variance(rates, average) ==
  QDiv(QSum([i \in 1..Len(rates) |->
               QMul(QSub(rates[i], average), QSub(rates[i], average))]),
       Q(Len(rates), 1))

\* calculateVolatility(rates): the value it sets
calculateVolatility(rates) ==
  LET validRates == SelectSeq(rates, isValidRate)
      average    == mean(validRates)
      stdDev     == QSqrt(variance(validRates, average))
      volatilityPercent == QMul(QDiv(stdDev, average), Q(100, 1))
  IN  IF Len(rates) < 2 \/ Len(validRates) < 2 THEN Absent
      ELSE IF ~isFiniteNumber(average) \/ average.n = 0 THEN Absent
      ELSE IF ~isFiniteNumber(stdDev) THEN Absent
      ELSE IF isFiniteNumber(volatilityPercent) THEN volatilityPercent ELSE Absent

\* determineTrend(rates): the value it sets
determineTrend(rates) ==
  LET validRates == SelectSeq(rates, isValidRate)
      midPoint   == Len(validRates) \div 2
      firstAvg   == mean(SubSeq(validRates, 1, midPoint))
      secondAvg  == mean(SubSeq(validRates, midPoint + 1, Len(validRates)))
      change     == QMul(QDiv(QSub(secondAvg, firstAvg), firstAvg), Q(100, 1))
  IN  IF Len(rates) < 2 \/ Len(validRates) < 2 THEN "neutral"
      ELSE IF ~isFiniteNumber(firstAvg) \/ ~isFiniteNumber(secondAvg) \/ firstAvg.n = 0
           THEN "neutral"
      ELSE IF ~isFiniteNumber(change) THEN "neutral"
      ELSE IF QGreater(change, Q(1, 10)) THEN "up"
      ELSE IF QLess(change, Q(0 - 1, 10)) THEN "down"
      ELSE "neutral"

\* processWeekData(rates) and processMonthData(rates): the signals after
\* it, a being the signals before
processWeekData(a, rates) ==
  LET validRates == SelectSeq(rates, isValidRate)
  IN  IF Len(rates) = 0 \/ Len(validRates) = 0 THEN a
      ELSE [a EXCEPT !.weekHigh   = QMax(validRates),
                     !.weekLow    = QMin(validRates),
                     !.avg7Days   = mean(validRates),
                     !.volatility = calculateVolatility(validRates),
                     !.trend      = determineTrend(validRates)]

processMonthData(a, rates) ==
  LET validRates == SelectSeq(rates, isValidRate)
  IN  IF Len(rates) = 0 \/ Len(validRates) = 0 THEN a
      ELSE [a EXCEPT !.monthHigh = QMax(validRates),
                     !.monthLow  = QMin(validRates),
                     !.avg30Days = mean(validRates)]

\* calculateMetrics(data): the value of the metrics signal
calculateMetrics(days) ==
  LET rates     == extractRates(days)
      average   == mean(rates)
      firstRate == rates[1]
      lastRate  == rates[Len(rates)]
      change    == QSub(lastRate, firstRate)
      midPoint  == Len(rates) \div 2
      firstAvg  == mean(SubSeq(rates, 1, midPoint))
      secondAvg == mean(SubSeq(rates, midPoint + 1, Len(rates)))
  IN  IF Len(rates) = 0 THEN NoMetrics
      ELSE [isNull |-> FALSE,
            high |-> QMax(rates),
            low |-> QMin(rates),
            average |-> average,
            change |-> change,
            changePercent |-> IF firstRate.n # 0
                              THEN QMul(QDiv(change, firstRate), Q(100, 1))
                              ELSE Q(0, 1),
            volatility |-> IF average.n # 0
                           THEN QMul(QDiv(QSqrt(variance(rates, average)), average),
                                     Q(100, 1))
                           ELSE Q(0, 1),
            trend |-> IF QGreater(secondAvg, QMul(firstAvg, Q(101, 100))) THEN "up"
                      ELSE IF QLess(secondAvg, QMul(firstAvg, Q(99, 100))) THEN "down"
                      ELSE "neutral"]

\* The series a response holds for the currency: a value for each day, in
\* the order of the dates; Absent where the day has none
StatSeries ==
  { <<>>,
    <<Q(10, 1)>>,
    <<Q(10, 1), Q(10, 1), Q(10, 1)>>,
    <<Q(1, 1), Q(1, 1), Q(1, 1), Q(2, 1), Q(2, 1), Q(2, 1)>>,
    <<Q(2, 1), Q(2, 1), Q(2, 1), Q(1, 1), Q(1, 1), Q(1, 1)>>,
    <<Q(1, 1), Q(1, 1), Q(1, 1), Q(1, 1)>>,
    <<Q(200, 1), Q(201, 1)>>,
    <<Q(201, 1), Q(200, 1)>>,
    <<Q(1, 1), Q(3, 1)>>,
    <<QNaN, Q(0, 1), Q(0 - 1, 1)>>,
    <<Absent, Q(10, 1), QInf>> }

MonthSeries == { <<>>, <<Absent>>, <<Q(10, 1)>>, <<Q(1, 1), Q(3, 1)>> }

\* loadAnalytics(): forkJoin delivers the rates extracted from the week and
\* the month response
LoadAnalytics(week, month) ==
  /\ analyticsLoad' = [done  |-> TRUE,
                       week  |-> extractRates(week),
                       month |-> extractRates(month)]
  /\ analytics' = processMonthData(processWeekData(analytics, analyticsLoad'.week),
                                   analyticsLoad'.month)
  /\ UNCHANGED <<metrics, chartData>>

\* loadChartData(): the time series arrives
LoadChart(days) ==
  /\ chartData' = [isNull |-> FALSE, rates |-> days]
  /\ metrics' = calculateMetrics(days)
  /\ UNCHANGED <<analytics, analyticsLoad>>

(***************************************************************************)
(* MarketOverviewComponent: calculateStrengths and the two lists computed  *)
(* from it.                                                                *)
(***************************************************************************)
STRENGTH_THRESHOLD_STRONG == 2
STRENGTH_THRESHOLD_WEAK   == 0 - 2
listLimit == 5     \* slice(0, 5)

\* ((currentRate - rate) / rate) * 100 for the rate of code in historical,
\* 0 when it has none that is positive and finite
changeSince(currentRate, historical, code) ==
  IF code \in DOMAIN historical /\ isValidRate(historical[code])
  THEN QMul(QDiv(QSub(currentRate, historical[code]), historical[code]), Q(100, 1))
  ELSE Q(0, 1)

\* One turn of the loop of calculateStrengths: the entry of currency.
\* strengthOf_AtThreshold classifies a strength at a threshold as strong or
\* weak.
strengthOf_AtThreshold(currency, historical7d, historical30d) ==
  LET change7d  == changeSince(currency.rate, historical7d, currency.code)
      change30d == changeSince(currency.rate, historical30d, currency.code)
      change24h == IF isFiniteNumber(currency.changePercent24h)
                   THEN currency.changePercent24h ELSE Q(0, 1)
      strength  == QAdd(QAdd(QMul(change24h, Q(5, 10)), QMul(change7d, Q(3, 10))),
                        QMul(change30d, Q(2, 10)))
  IN  [code |-> currency.code, name |-> currency.name, strength |-> strength,
       trend |-> IF ~QLess(strength, Q(STRENGTH_THRESHOLD_STRONG, 1)) THEN "strong"
                 ELSE IF ~QGreater(strength, Q(STRENGTH_THRESHOLD_WEAK, 1)) THEN "weak"
                 ELSE "moderate",
       change24h |-> change24h, change7d |-> change7d, change30d |-> change30d]

strengthOf(currency, historical7d, historical30d) ==
  LET change7d  == changeSince(currency.rate, historical7d, currency.code)
      change30d == changeSince(currency.rate, historical30d, currency.code)
      change24h == IF isFiniteNumber(currency.changePercent24h)
                   THEN currency.changePercent24h ELSE Q(0, 1)
      strength  == QAdd(QAdd(QMul(change24h, Q(5, 10)), QMul(change7d, Q(3, 10))),
                        QMul(change30d, Q(2, 10)))
  IN  [code |-> currency.code, name |-> currency.name, strength |-> strength,
       trend |-> IF QGreater(strength, Q(STRENGTH_THRESHOLD_STRONG, 1)) THEN "strong"
                 ELSE IF QLess(strength, Q(STRENGTH_THRESHOLD_WEAK, 1)) THEN "weak"
                 ELSE "moderate",
       change24h |-> change24h, change7d |-> change7d, change30d |-> change30d]

\* entries.sort(compare), the stable sort, for the two comparators in use:
\* b.strength - a.strength (descending) and a.strength - b.strength
RECURSIVE sortByStrength(_, _)
sortByStrength(entries, descending) ==
  IF Len(entries) = 0 THEN <<>>
  ELSE LET sorted == sortByStrength(SubSeq(entries, 1, Len(entries) - 1), descending)
           last   == entries[Len(entries)]
           ahead  == { i \in 1..Len(sorted) :
                         IF descending THEN QGreater(last.strength, sorted[i].strength)
                         ELSE QLess(last.strength, sorted[i].strength) }
           at     == IF ahead = {} THEN Len(sorted) + 1
                     ELSE CHOOSE i \in ahead : \A j \in ahead : i <= j
       IN  SubSeq(sorted, 1, at - 1) \o <<last>> \o SubSeq(sorted, at, Len(sorted))

calculateStrengths(list, historical7d, historical30d) ==
  LET valid   == SelectSeq(list, LAMBDA c : isValidRate(c.rate))
      results == [i \in 1..Len(valid) |-> strengthOf(valid[i], historical7d, historical30d)]
  IN  sortByStrength(results, TRUE)

strongestCurrencies(strengths) ==
  LET strong == sortByStrength(SelectSeq(strengths,
                         LAMBDA c : QGreater(c.strength, Q(STRENGTH_THRESHOLD_STRONG, 1))),
                       TRUE)
  IN  SubSeq(strong, 1, Min(listLimit, Len(strong)))

weakestCurrencies(strengths) ==
  LET weak == sortByStrength(SelectSeq(strengths,
                       LAMBDA c : QLess(c.strength, Q(STRENGTH_THRESHOLD_WEAK, 1))),
                     FALSE)
  IN  SubSeq(weak, 1, Min(listLimit, Len(weak)))

\* The entries of getCurrencyData and the historical rates they meet
Entry24h(code, rate, percent) ==
  [code |-> code, name |-> code, rate |-> rate, change24h |-> Q(0, 1),
   changePercent24h |-> percent]

MarketEntries ==
  { Entry24h("USD", Q(11, 10), Q(10, 1)),
    Entry24h("GBP", Q(1, 1), Absent),
    Entry24h("JPY", Q(1, 1), Q(4, 1)),
    Entry24h("CAD", Q(1, 1), Q(0 - 4, 1)),
    Entry24h("CHF", Q(0, 1), Q(10, 1)) }

SixCodes == <<"AUD", "NZD", "SEK", "NOK", "DKK", "PLN">>
SixStrong == [i \in 1..(listLimit + 1) |-> Entry24h(SixCodes[i], Q(1, 1), Q(8 + 2 * i, 1))]
SixWeak   == [i \in 1..(listLimit + 1) |-> Entry24h(SixCodes[i], Q(1, 1), Q(0 - 8 - 2 * i, 1))]

MarketLists ==
  UNION { [1..n -> MarketEntries] : n \in 0..2 }
    \cup { SixStrong, SixWeak, SixWeak \o <<Entry24h("USD", Q(11, 10), Q(10, 1))>> }

MarketInputs ==
  { [fn |-> "market", currencies |-> l, historical7d |-> h7, historical30d |-> h30] :
      l \in MarketLists,
      h7 \in { EmptyMap, [c \in {"USD", "GBP"} |-> IF c = "USD" THEN Q(1, 1) ELSE Q(2, 1)] },
      h30 \in { EmptyMap, [c \in {"USD", "JPY"} |-> IF c = "USD" THEN Q(1, 1) ELSE QNaN] } }

\* The three computed signals are read
ApplyStrengths ==
  /\ calcOut = NotApplied
  /\ calcOut' =
       LET strengths == calculateStrengths(calcIn.currencies, calcIn.historical7d,
                                           calcIn.historical30d)
       IN  [fn |-> "calculateStrengths",
            value |-> strengths,
            strongest |-> strongestCurrencies(strengths),
            weakest |-> weakestCurrencies(strengths)]
  /\ UNCHANGED calcIn

(***************************************************************************)
(* DashboardComponent: ngOnInit, loadData, the auto-refresh interval       *)
(* timer and ngOnDestroy. A timer that is due runs before more time        *)
(* passes.                                                                 *)
(***************************************************************************)
REFRESH_INTERVAL_MS == 2    \* 5 * 60 * 1000 ms, in units of 150 s
DashMaxIdle  == 5           \* dashLog.elapsed is counted up to DashMaxIdle
DashMaxLoads == 3           \* loads waiting for their data at a time

NoTimers == <<>>

\* setInterval(callback, delay): a new handle, registered with the delay
newHandle(ts) == Len(ts) + 1
setInterval(ts, delay) == Append(ts, [handle |-> newHandle(ts), left |-> delay])

\* clearInterval(handle)
clearInterval(ts, handle) ==
  LET other(t) == t.handle # handle
  IN  SelectSeq(ts, other)

\* Every registered timer is one unit of time closer to its tick
elapse(ts) == [i \in 1..Len(ts) |-> [ts[i] EXCEPT !.left = @ - 1]]

\* loadData(): the loading flag, one more subscription, and the record of
\* the call
loadData(who, t) ==
  /\ loading' = TRUE
  /\ error' = Null
  /\ pendingLoads' = Min(pendingLoads + 1, DashMaxLoads)
  /\ dashLog' = [who |-> who, elapsed |-> t, state |-> dashState]

ngOnInit ==
  /\ dashState = "created"
  /\ dashState' = "alive"
  /\ loadData("init", 0)
  /\ refreshInterval' = newHandle(timers)
  /\ timers' = setInterval(timers, REFRESH_INTERVAL_MS)

\* onRefresh() and onRetry()
onRefresh ==
  /\ dashState = "alive"
  /\ pendingLoads < DashMaxLoads
  /\ loadData("user", dashLog.elapsed)
  /\ UNCHANGED <<refreshInterval, timers, dashState>>

\* The callback of setInterval runs; the timer starts over
TimerFire ==
  \E i \in 1..Len(timers) :
    /\ timers[i].left = 0
    /\ \A j \in 1..(i - 1) : timers[j].left # 0
    /\ timers' = [timers EXCEPT ![i].left = REFRESH_INTERVAL_MS]
    /\ loadData("timer", 0)
    /\ UNCHANGED <<refreshInterval, dashState>>

\* getCurrencyData delivers the list: the next handler of loadData
LoadNext ==
  /\ pendingLoads > 0
  /\ pendingLoads' = pendingLoads - 1
  /\ loading' = FALSE
  /\ UNCHANGED <<refreshInterval, timers, dashState, error, dashLog>>

\* getCurrencyData fails: catchError of loadData
LoadFailed ==
  /\ pendingLoads > 0
  /\ pendingLoads' = pendingLoads - 1
  /\ error' = "dashboard.error.loadFailed"
  /\ loading' = FALSE
  /\ UNCHANGED <<refreshInterval, timers, dashState, dashLog>>

\* stopAutoRefresh_NoClear forgets the handle without clearInterval
stopAutoRefresh_NoClear ==
  IF refreshInterval # 0
  THEN /\ timers' = timers
       /\ refreshInterval' = 0
  ELSE UNCHANGED <<timers, refreshInterval>>

stopAutoRefresh ==
  IF refreshInterval # 0
  THEN /\ timers' = clearInterval(timers, refreshInterval)
       /\ refreshInterval' = 0
  ELSE UNCHANGED <<timers, refreshInterval>>

\* The view is destroyed: takeUntilDestroyed ends the subscriptions
ngOnDestroy ==
  /\ dashState = "alive"
  /\ dashState' = "destroyed"
  /\ stopAutoRefresh
  /\ pendingLoads' = 0
  /\ UNCHANGED <<loading, error, dashLog>>

\* One unit of time passes
DashTick ==
  /\ dashState # "created"
  /\ \A i \in 1..Len(timers) : timers[i].left > 0
  /\ dashLog.elapsed < DashMaxIdle
  /\ timers' = elapse(timers)
  /\ dashLog' = [dashLog EXCEPT !.elapsed = @ + 1]
  /\ UNCHANGED <<refreshInterval, dashState, loading, error, pendingLoads>>

\* The dashboard after construction; refreshInterval = 0 is null
DashInit ==
  /\ refreshInterval = 0
  /\ timers = NoTimers
  /\ dashState = "created"
  /\ loading = TRUE
  /\ error = Null
  /\ pendingLoads = 0
  /\ dashLog = [who |-> "none", elapsed |-> 0, state |-> "created"]

(***************************************************************************)
(* The dashboard with CurrencyService and FrankfurterApiService behind it. *)
(* getCurrencyData() builds a new pipeline at every call:                  *)
(*   combineLatest([baseCurrency$, selectedCurrencies$, currenciesCache$]) *)
(*     -> filter -> switchMap(run) -> shareReplay                          *)
(* where a run is combineLatest([getLatestRates, getHistoricalRate]) ->    *)
(* map(list). The list of currency names has been delivered to             *)
(* currenciesCache$, so a new subscription starts its first run at once.   *)
(* A run is [sel, latest, historical]: the selection it fetches for and,   *)
(* per source, "pending" (request in flight) or where its value came from  *)
(* ("cache", "network", "fallback"). A subscription is [inners]: the runs  *)
(* it is subscribed to that have not delivered.                            *)
(***************************************************************************)
FeedMaxSubs == 2    \* loadData is called while fewer subscriptions are live

DefaultSymbols == <<"USD", "GBP", "JPY", "CHF", "AUD", "CAD">>

\* No list was delivered yet
NoSelection == [base |-> "", symbols |-> <<>>]

\* yesterday.toISOString().split('T')[0]
getYesterdayDate == "2024-12-25"

\* The values of the two subjects, with the two requests a run makes for
\* them: getLatestRates(base, symbols) and getHistoricalRate(yesterday,
\* base, symbols)
selected(base, symbols) ==
  [base       |-> base,
   symbols    |-> symbols,
   latest     |-> request(LatestCall(base, symbols)),
   historical |-> request(HistoricalCall(getYesterdayDate, base, symbols))]

\* What the server answers to request q of selection sel, validated
feedData(sel, q) ==
  validateResponse(q, ExchangeBody(sel.base, <<[code |-> sel.symbols[1], value |-> Num(3)]>>))

\* The project function of switchMap is called at time t with cache c:
\* getLatestRates and getHistoricalRate look their keys up, in this order
startRun(c, sel, t) ==
  LET l == getCached(c, sel.latest.key, t)
      h == getCached(l.cache, sel.historical.key, t)
  IN  [cache |-> h.cache,
       inner |-> [sel        |-> sel,
                  latest     |-> IF l.hit THEN "cache" ELSE "pending",
                  historical |-> IF h.hit THEN "cache" ELSE "pending"]]

\* combineLatest of a run has a value from both sources
delivers(inner) == inner.latest # "pending" /\ inner.historical # "pending"
waits(inner)    == ~delivers(inner)

\* switchMap: the runs a subscription is subscribed to once a new run
\* starts. switchMap_Merge is mergeMap: the earlier runs stay subscribed.
switchMap_Merge(inners, inner) == Append(inners, inner)

switchMap(inners, inner) == <<inner>>

\* What a step did, to be added up over the subscriptions it went through
NoEffect ==
  [runs |-> 0, updates |-> 0, requests |-> 0, abandoned |-> 0, sources |-> {},
   stale |-> FALSE]

\* The outer combineLatest of one subscription emits sel at time t
rerun(sub, c, sel, t) ==
  LET run  == startRun(c, sel, t)
      kept == switchMap(sub.inners, run.inner)
  IN  [sub    |-> [inners |-> SelectSeq(kept, waits)],
       cache  |-> run.cache,
       effect |-> [runs      |-> 1,
                   updates   |-> IF delivers(run.inner) THEN 1 ELSE 0,
                   requests  |-> IF run.inner.latest = "pending" THEN 1 ELSE 0,
                   abandoned |-> Len(sub.inners) + 1 - Len(kept),
                   sources   |-> IF delivers(run.inner) THEN {run.inner.latest} ELSE {},
                   stale     |-> FALSE]]

plus(e, f) ==
  [runs |-> e.runs + f.runs, updates |-> e.updates + f.updates,
   requests |-> e.requests + f.requests, abandoned |-> e.abandoned + f.abandoned,
   sources |-> e.sources \cup f.sources, stale |-> e.stale \/ f.stale]

\* BehaviorSubject.next(sel): the subscriptions are notified oldest first
RECURSIVE propagate(_, _, _, _)
propagate(ss, c, sel, t) ==
  IF Len(ss) = 0 THEN [subs |-> <<>>, cache |-> c, effect |-> NoEffect]
  ELSE LET first == rerun(ss[1], c, sel, t)
           rest  == propagate(Tail(ss), first.cache, sel, t)
       IN  [subs   |-> <<first.sub>> \o rest.subs,
            cache  |-> rest.cache,
            effect |-> plus(first.effect, rest.effect)]

\* Subscriptions still waiting for a list
Waiting(ss) == Min(Len(SelectSeq(ss, LAMBDA sub : Len(sub.inners) > 0)), DashMaxLoads)

\* The next handler of loadData ran for effect.updates lists, the last of
\* them built for sel
delivered(effect, sel) ==
  /\ shown' = IF effect.updates > 0 THEN sel ELSE shown
  /\ lastUpdate' = IF effect.updates > 0 THEN now ELSE lastUpdate

\* loadData() with the services behind it: a new subscription, whose first
\* run may deliver from the cache before loadData returns
feedLoadData(who) ==
  LET new == rerun([inners |-> <<>>], cache, selection, now)
  IN  /\ subs' = Append(subs, new.sub)
      /\ cache' = new.cache
      /\ delivered(new.effect, selection)
      /\ loading' = (new.effect.updates = 0)
      /\ error' = Null
      /\ pendingLoads' = Waiting(subs')
      /\ dashLog' = [who |-> who, elapsed |-> 0, state |-> dashState]
      /\ feedLog' = [new.effect EXCEPT !.abandoned = 0] @@ [event |-> who]
      /\ UNCHANGED <<now, inflight, out, selection>>

FeedNgOnInit ==
  /\ dashState = "created"
  /\ dashState' = "alive"
  /\ feedLoadData("init")
  /\ refreshInterval' = newHandle(timers)
  /\ timers' = setInterval(timers, REFRESH_INTERVAL_MS)

\* onRefresh() and onRetry()
FeedOnRefresh ==
  /\ dashState = "alive"
  /\ Len(subs) < FeedMaxSubs
  /\ feedLoadData("user")
  /\ UNCHANGED <<refreshInterval, timers, dashState>>

\* The callback of setInterval
FeedTimerFire ==
  /\ dashState = "alive"
  /\ Len(subs) < FeedMaxSubs
  /\ \E i \in 1..Len(timers) :
       /\ timers[i].left = 0
       /\ timers' = [timers EXCEPT ![i].left = REFRESH_INTERVAL_MS]
  /\ feedLoadData("timer")
  /\ UNCHANGED <<refreshInterval, dashState>>

\* baseCurrency$ or selectedCurrencies$ gets a new value
feedNext(event, base, symbols) ==
  /\ selection' = selected(base, symbols)
  /\ LET all == propagate(subs, cache, selection', now)
     IN  /\ subs' = all.subs
         /\ cache' = all.cache
         /\ delivered(all.effect, selection')
         /\ loading' = IF all.effect.updates > 0 THEN FALSE ELSE loading
         /\ pendingLoads' = Waiting(subs')
         /\ feedLog' = all.effect @@ [event |-> event]
  /\ UNCHANGED <<now, inflight, out, refreshInterval, timers, dashState, error, dashLog>>

setBaseCurrency(currency) ==
  LET sanitized == sanitizeCurrencyCode(currency)
  IN  /\ sanitized # "" /\ sanitized # selection.base
      /\ feedNext("base", sanitized, selection.symbols)

setSelectedCurrencies(list) ==
  LET sanitized == sanitizeCurrencyArray(TRUE, list)
  IN  /\ Len(sanitized) > 0 /\ sanitized # selection.symbols
      /\ feedNext("symbols", selection.base, sanitized)

\* The source op of run k of subscription i gets its value from where:
\* "network" (the response, validated and stored) or "fallback" (the
\* request failed for good)
feedSettle(i, k, op, where) ==
  LET inner   == subs[i].inners[k]
      settled == [inner EXCEPT ![op] = where]
      effect  == [NoEffect EXCEPT !.updates = IF delivers(settled) THEN 1 ELSE 0,
                                  !.sources = IF delivers(settled) THEN {settled.latest} ELSE {},
                                  !.stale   = delivers(settled) /\ inner.sel # selection]
  IN  /\ inner[op] = "pending"
      /\ subs' = [subs EXCEPT ![i].inners =
                    IF delivers(settled) THEN RemoveAt(@, k) ELSE [@ EXCEPT ![k] = settled]]
      /\ cache' = IF where = "network"
                  THEN setCache(cache, inner.sel[op].key, feedData(inner.sel, inner.sel[op]), now)
                  ELSE cache
      /\ delivered(effect, inner.sel)
      /\ loading' = IF effect.updates > 0 THEN FALSE ELSE loading
      /\ pendingLoads' = Waiting(subs')
      /\ feedLog' = effect @@ [event |-> where]
      /\ UNCHANGED <<now, inflight, out, selection, refreshInterval, timers, dashState,
                     error, dashLog>>

FeedResponse(i, k, op) == feedSettle(i, k, op, "network")
FeedFailure(i, k, op)  == feedSettle(i, k, op, "fallback")

\* One unit of time passes for the timer and for Date.now()
FeedTick ==
  /\ dashState = "alive"
  /\ \A i \in 1..Len(timers) : timers[i].left > 0
  /\ now < MaxClock
  /\ now' = now + 1
  /\ timers' = elapse(timers)
  /\ dashLog' = [dashLog EXCEPT !.elapsed = @ + 1]
  /\ feedLog' = NoEffect @@ [event |-> "tick"]
  /\ UNCHANGED <<cache, inflight, out, refreshInterval, dashState, loading, error,
                 pendingLoads, selection, subs, lastUpdate, shown>>

\* The services after construction and no subscription yet
FeedInit ==
  /\ selection = selected("EUR", DefaultSymbols)
  /\ subs = <<>>
  /\ lastUpdate = 0 - 1
  /\ shown = NoSelection
  /\ feedLog = NoEffect @@ [event |-> "none"]

(***************************************************************************)
(* MarketOverviewComponent: ngOnInit, loadMarketData, loadHistoricalData   *)
(* and the two historical requests joined by forkJoin. A request of the    *)
(* component is pending until it is answered or fails. The error handler   *)
(* of the forkJoin subscription never runs, since both requests end in     *)
(* catchError(() => of({})).                                               *)
(***************************************************************************)
MarketMaxRuns == 2          \* forkJoin subscriptions waiting at a time

\* format(subDays(new Date(), 7), 'yyyy-MM-dd') and the same for 30 days
MarketDate7d  == "2024-12-19"
MarketDate30d == "2024-11-26"

\* new Date(s).getTime() of a date dddd-dd-dd, as a number that orders dates
dateNumber(s) ==
  LET digit(i) == DigitValue(CharAt(s, i))
  IN  10000 * (1000 * digit(1) + 100 * digit(2) + 10 * digit(3) + digit(4))
        + 100 * (10 * digit(6) + digit(7)) + 10 * digit(9) + digit(10)

\* sanitizeDate of the component: null for a date that is unusable
marketSanitizeDate(date) ==
  IF date = "" THEN Null
  ELSE LET sanitized == keepDateChars(date)
       IN  IF ~matchesDatePattern(sanitized) THEN Null
           ELSE IF ~isValidDate(sanitized) THEN Null
           ELSE IF dateNumber(sanitized) > dateNumber(Today)
                     \/ dateNumber(sanitized) < dateNumber("1999-01-01") THEN Null
           ELSE sanitized

\* extractRates of the component: the rates of symbols that are usable
marketExtractRates(data, symbols) ==
  IF ~data.object THEN EmptyMap
  ELSE LET kept == { symbols[i] : i \in 1..Len(symbols) }
                     \cap { code \in DOMAIN data.rates : isValidRate(data.rates[code]) }
       IN  [code \in kept |-> data.rates[code]]

NotDone == [done |-> FALSE, rates |-> EmptyMap]

\* What loadHistoricalData does for base code baseCurrency and list: it ends
\* the load, or it subscribes to forkJoin of the two requests.
\* loadHistoricalData_KeepsLoading returns on an empty list of symbols
\* without loading.set(false).
loadHistoricalData_KeepsLoading(baseCurrency, list) ==
  LET base    == tableSanitizeCurrencyCode(baseCurrency)
      codes   == [i \in 1..Len(list) |-> tableSanitizeCurrencyCode(list[i].code)]
      symbols == SelectSeq(codes, LAMBDA code : Len(code) > 0)
      date7d  == marketSanitizeDate(MarketDate7d)
      date30d == marketSanitizeDate(MarketDate30d)
  IN  IF base = "" THEN [ends |-> TRUE, runs |-> <<>>, path |-> "base"]
      ELSE IF Len(symbols) = 0 THEN [ends |-> FALSE, runs |-> <<>>, path |-> "symbols"]
      ELSE IF date7d = Null \/ date30d = Null
        THEN [ends |-> TRUE, runs |-> <<>>, path |-> "dates"]
      ELSE [ends |-> FALSE,
            runs |-> <<[symbols |-> symbols, data7d |-> NotDone, data30d |-> NotDone]>>,
            path |-> "requests"]

loadHistoricalData(baseCurrency, list) ==
  LET base    == tableSanitizeCurrencyCode(baseCurrency)
      codes   == [i \in 1..Len(list) |-> tableSanitizeCurrencyCode(list[i].code)]
      symbols == SelectSeq(codes, LAMBDA code : Len(code) > 0)
      date7d  == marketSanitizeDate(MarketDate7d)
      date30d == marketSanitizeDate(MarketDate30d)
  IN  IF base = "" THEN [ends |-> TRUE, runs |-> <<>>, path |-> "base"]
      ELSE IF Len(symbols) = 0 THEN [ends |-> TRUE, runs |-> <<>>, path |-> "symbols"]
      ELSE IF date7d = Null \/ date30d = Null
        THEN [ends |-> TRUE, runs |-> <<>>, path |-> "dates"]
      ELSE [ends |-> FALSE,
            runs |-> <<[symbols |-> symbols, data7d |-> NotDone, data30d |-> NotDone]>>,
            path |-> "requests"]

\* ngOnInit: the base code of the service is taken over when it is usable,
\* and loadMarketData subscribes to getCurrencyData
marketNgOnInit ==
  /\ marketFeed = "none"
  /\ marketBase' = (LET sanitized == tableSanitizeCurrencyCode(selection.base)
                    IN  IF sanitized # "" THEN sanitized ELSE marketBase)
  /\ marketLoading' = TRUE
  /\ marketError' = Null
  /\ marketFeed' = "pending"
  /\ marketLog' = [event |-> "loadMarketData", path |-> "none"]
  /\ UNCHANGED <<marketCurrencies, marketHistorical7d, marketHistorical30d, marketRuns>>

\* getBaseCurrency emits currency after the base of the service was changed
marketBaseNext(currency) ==
  /\ marketFeed \in {"pending", "live"}
  /\ marketBase' = (LET sanitized == tableSanitizeCurrencyCode(currency)
                    IN  IF sanitized # "" THEN sanitized ELSE marketBase)
  /\ marketLog' = [event |-> "base", path |-> "none"]
  /\ UNCHANGED <<marketLoading, marketError, marketCurrencies, marketHistorical7d,
                 marketHistorical30d, marketFeed, marketRuns>>

\* getCurrencyData emits data, the first time when first holds and after a
\* change of the selection otherwise: currencies.set and loadHistoricalData
marketListNext(data, first) ==
  /\ marketFeed = (IF first THEN "pending" ELSE "live")
  /\ Len(marketRuns) < MarketMaxRuns
  /\ LET effect == loadHistoricalData(marketBase, data)
     IN  /\ marketCurrencies' = data
         /\ marketLoading' = (IF effect.ends THEN FALSE ELSE marketLoading)
         /\ marketRuns' = marketRuns \o effect.runs
         /\ marketLog' = [event |-> "list", path |-> effect.path]
  /\ marketFeed' = "live"
  /\ UNCHANGED <<marketError, marketBase, marketHistorical7d, marketHistorical30d>>

\* getCurrencyData fails: catchError sets the error, ends the load and
\* hands on of([]), which is delivered as a list and closes the subscription
marketListError ==
  /\ marketFeed \in {"pending", "live"}
  /\ marketError' = "market.error.loadFailed"
  /\ LET effect == loadHistoricalData(marketBase, <<>>)
     IN  /\ marketCurrencies' = <<>>
         /\ marketLoading' = FALSE
         /\ marketRuns' = marketRuns \o effect.runs
         /\ marketLog' = [event |-> "listError", path |-> effect.path]
  /\ marketFeed' = "closed"
  /\ UNCHANGED <<marketBase, marketHistorical7d, marketHistorical30d>>

\* Request which ("data7d" or "data30d") of forkJoin subscription i is
\* answered with body data, or fails when failed holds and catchError hands
\* on {}. forkJoin emits when both have ended: the two signals are set and
\* the load ends.
marketSettle(i, which, data, failed) ==
  /\ i \in 1..Len(marketRuns)
  /\ ~marketRuns[i][which].done
  /\ LET run     == marketRuns[i]
         rates   == IF failed THEN EmptyMap ELSE marketExtractRates(data, run.symbols)
         settled == [run EXCEPT ![which] = [done |-> TRUE, rates |-> rates]]
     IN  IF settled.data7d.done /\ settled.data30d.done
         THEN /\ marketHistorical7d' = settled.data7d.rates
              /\ marketHistorical30d' = settled.data30d.rates
              /\ marketLoading' = FALSE
              /\ marketRuns' = RemoveAt(marketRuns, i)
              /\ marketLog' = [event |-> "settle", path |-> "forkJoin"]
         ELSE /\ marketRuns' = [marketRuns EXCEPT ![i] = settled]
              /\ marketLog' = [event |-> "settle", path |-> "waiting"]
              /\ UNCHANGED <<marketLoading, marketHistorical7d, marketHistorical30d>>
  /\ UNCHANGED <<marketError, marketCurrencies, marketBase, marketFeed>>

\* The component after construction
MarketInit ==
  /\ marketCurrencies = <<>>
  /\ marketBase = "EUR"
  /\ marketLoading = TRUE
  /\ marketError = Null
  /\ marketHistorical7d = EmptyMap
  /\ marketHistorical30d = EmptyMap
  /\ marketFeed = "none"
  /\ marketRuns = <<>>
  /\ marketLog = [event |-> "none", path |-> "none"]

(***************************************************************************)
(* The initial state of every specification but SpecKey.                   *)
(***************************************************************************)
\* The components that start in one state
Base == ApiInit /\ TableInit /\ PagerInit /\ ConvInit /\ DashInit /\ FeedInit /\ MarketInit

Init == Base /\ KeyIdle /\ HistIdle /\ FavIdle /\ CalcIdle /\ StatIdle

\* A step of one component leaves the others as they are
OnlyApi   == UNCHANGED <<keyVars, tableVars, convVars, histVars, favVars, dashVars, calcVars, statVars, feedVars, pagerVars, marketVars>>
OnlyKey   == UNCHANGED <<apiVars, tableVars, convVars, histVars, favVars, dashVars, calcVars, statVars, feedVars, pagerVars, marketVars>>
OnlyTable == UNCHANGED <<apiVars, keyVars, convVars, histVars, favVars, dashVars, calcVars, statVars, feedVars, pagerVars, marketVars>>
OnlyConv  == UNCHANGED <<apiVars, keyVars, tableVars, histVars, favVars, dashVars, calcVars, statVars, feedVars, pagerVars, marketVars>>
OnlyDash  == UNCHANGED <<apiVars, keyVars, tableVars, convVars, histVars, favVars, calcVars, statVars, feedVars, pagerVars, marketVars>>
\* A step of the converter that converts, or that edits the favorites
OnlyConvert == UNCHANGED <<apiVars, keyVars, tableVars, favVars, dashVars, calcVars, statVars, feedVars, pagerVars, marketVars>>
OnlyCalc  == UNCHANGED <<apiVars, keyVars, tableVars, convVars, histVars, favVars,
                         dashVars, statVars, feedVars, pagerVars, marketVars>>
OnlyStat  == UNCHANGED <<apiVars, keyVars, tableVars, convVars, histVars, favVars,
                         dashVars, calcVars, feedVars, pagerVars, marketVars>>
\* A step of the dashboard together with the two services
OnlyFeed  == UNCHANGED <<keyVars, tableVars, convVars, histVars, favVars, calcVars, statVars, pagerVars, marketVars>>
\* A step of the table that writes its favorites, sorting or loading state
OnlyPager == UNCHANGED <<apiVars, keyVars, convVars, histVars, favVars, dashVars, calcVars,
                         statVars, feedVars, marketVars>>
\* A step of the market overview
OnlyMarket == UNCHANGED <<apiVars, keyVars, tableVars, convVars, histVars, favVars, dashVars,
                          calcVars, statVars, feedVars, pagerVars>>
OnlyFav   == UNCHANGED <<apiVars, keyVars, tableVars, convVars, histVars, dashVars, calcVars, statVars, feedVars, pagerVars, marketVars>>

(***************************************************************************)
(* SpecCache: one call of each public method at a time, answered with a    *)
(* well-formed body, while the clock runs past the time to live.           *)
(***************************************************************************)
CacheNext ==
  \/ \E r \in CacheCalls : Call(r, MaxInflight) /\ OnlyApi
  \/ \E q \in BagToSet(inflight) : \E body \in CacheBodies(q) : HttpOk(q, body) /\ OnlyApi
  \/ Tick /\ OnlyApi

SpecCache == Init /\ [][CacheNext]_vars

\* What a lookup by call r does with the entry of its key
LookupContract(r) ==
  LET q       == Prepared[r]
      i       == EntryIndex(cache, q.key)
      expired == i # 0 /\ now - cache[i].timestamp >= cacheTimeout
  IN  /\ out'.src = "cache" =>
           /\ i # 0
           /\ now - cache[i].timestamp < cacheTimeout
           /\ out'.data = cache[i].data
           /\ cache' = cache
      /\ expired =>
           /\ out'.src # "cache"
           /\ EntryIndex(cache', q.key) = 0
           /\ Len(cache') = Len(cache) - 1

\* C1: a call of any of the four methods delivers a stored value only
\* while now - timestamp < cacheTimeout; a lookup that finds an expired
\* entry delivers nothing from the cache and removes the entry, so the
\* cache is one entry smaller.
C1_ExpiredNeverServed ==
  [][\A r \in CacheCalls : Call(r, MaxInflight) => LookupContract(r)]_vars

\* C1 witness: a lookup has just deleted an expired entry while another
\* entry stayed in the cache
C1_Witness == out.purged /\ Len(cache) >= 1

\* C2: the cache never holds more than maxCacheSize entries, also when
\* several entries are inserted at the same Date.now().
C2_SizeBounded == Len(cache) <= maxCacheSize

\* The timestamps of cache c
Timestamps(c) == { c[i].timestamp : i \in 1..Len(c) }

\* Inserting key into the full cache removed exactly the entry at index i,
\* which has the smallest timestamp, and left the others as they were
EvictedOldest(i, key, data) ==
  /\ \A t \in Timestamps(cache) : cache[i].timestamp <= t
  /\ cache' = Append(RemoveAt(cache, i), [key |-> key, data |-> data, timestamp |-> now])

\* C3: storing a new key in a full cache evicts exactly one entry, the one
\* with the smallest timestamp, and leaves the other entries unchanged.
C3_EvictsOldest ==
  [][\A q \in BagToSet(inflight) : \A body \in CacheBodies(q) :
       (/\ HttpOk(q, body)
        /\ Len(cache) = maxCacheSize
        /\ EntryIndex(cache, q.key) = 0)
       => \E i \in 1..Len(cache) : EvictedOldest(i, q.key, validateResponse(q, body))]_vars

LookupBodies(q) == IF q.op = "latest" THEN RaceBodies(q) ELSE CacheBodies(q)

LookupCalls == { r \in CacheCalls : r.op # "timeseries" }

LookupNext ==
  \/ \E r \in LookupCalls : Call(r, RaceMaxInflight) /\ OnlyApi
  \/ \E q \in BagToSet(inflight) : \E body \in LookupBodies(q) : HttpOk(q, body) /\ OnlyApi
  \/ Tick /\ OnlyApi

SpecLookup == Init /\ [][LookupNext]_vars

\* C23: right after a response was stored under its key, at the same
\* Date.now(), a lookup of that key finds the entry fresh and returns the
\* stored value, and deletes nothing, whatever the cache held before.
C23_LookupAfterInsert ==
  out.src = "network" =>
    getCached(cache, out.key, now) =
      [hit |-> TRUE, data |-> out.data, cache |-> cache, purged |-> FALSE]

\* C23 witness: the value was stored into the full cache over an entry of
\* the same key (it kept its place before the last entry), late enough for
\* an entry of the epoch to be expired
C23_Witness ==
  /\ out.src = "network"
  /\ Len(cache) = maxCacheSize
  /\ EntryIndex(cache, out.key) < Len(cache)
  /\ now >= cacheTimeout

\* C23 witness: the value was stored under a new key into the full cache
C23_WitnessEvicting ==
  /\ out.src = "network"
  /\ EntryIndex(cache, out.key) = maxCacheSize
  /\ now >= cacheTimeout

(***************************************************************************)
(* SpecApi: the three rate methods at one Date.now(), each request         *)
(* answered with a body of any shape or failing.                           *)
(***************************************************************************)
ApiNext ==
  \/ \E r \in ApiCalls : Call(r, ApiMaxInflight) /\ OnlyApi
  \/ \E q \in BagToSet(inflight) : \E body \in ApiBodies(q) : HttpOk(q, body) /\ OnlyApi
  \/ \E q \in BagToSet(inflight) : HttpError(q) /\ OnlyApi

SpecApi == Init /\ [][ApiNext]_vars

\* The empty value of the shape of call r: no rates, base as requested
EmptyValueFor(r, data) ==
  /\ DOMAIN data = IF r.op = "timeseries"
                   THEN {"base", "start_date", "end_date", "rates"}
                   ELSE {"base", "date", "rates"}
  /\ data.rates = EmptyMap
  /\ data.base = IF isValidCurrencyCode(toUpperCase(trim(r.base)))
                 THEN toUpperCase(trim(r.base)) ELSE "EUR"

\* C5: the subscriber of getLatestRates, getHistoricalRate and
\* getTimeSeries never gets an error; when the request has failed once and
\* each of its retryAttempts retries has failed too, it gets the empty value
\* of the method's shape, with the sanitized requested base (or EUR), and
\* the completion.
C5_FallbackNotError ==
  /\ out.kind # "error"
  /\ out.src = "fallback" =>
       /\ out.kind = "next+complete"
       /\ out.attempts = retryAttempts + 1
       /\ \E r \in ApiCalls : Prepared[r].key = out.key /\ EmptyValueFor(r, out.data)

\* C5 witness: a time series request for base "12" has used up its retries
\* and the subscriber got the fallback
C5_Witness ==
  /\ out.src = "fallback"
  /\ out.op = "timeseries"
  /\ out.data.base = "EUR"
  /\ out.attempts = 3

\* The response is null, no object, or lacks base or rates
Malformed(body) == ~body.isObject \/ body.base = "" \/ ~body.hasRates

\* C6: a response with a malformed body is handled like a transport
\* failure: the subscriber gets the fallback value and the cache is left as
\* it was, with no entry for the request's key.
C6_MalformedLikeFailure ==
  [][\A q \in BagToSet(inflight) : \A body \in ApiBodies(q) :
       (HttpOk(q, body) /\ Malformed(body))
       => /\ out'.data = fallbackValue(q)
          /\ cache' = cache
          /\ EntryIndex(cache', q.key) = 0]_vars

\* The entry of the payload that gives code its rate value
FromPayload(entries, code, value) ==
  \E i \in 1..Len(entries) :
    /\ entries[i].code = code
    /\ isValidCurrencyCode(entries[i].code)
    /\ isFinitePositive(entries[i].value)
    /\ entries[i].value.n = value

\* The rates of a sanitized value come from well-formed payload entries
RatesFromPayload(q, body, data) ==
  IF q.op = "timeseries"
  THEN \A d \in DOMAIN data.rates : \A code \in DOMAIN data.rates[d] :
         \E i \in 1..Len(body.rates) :
           FromPayload(body.rates[i].currencies, code, data.rates[d][code])
  ELSE \A code \in DOMAIN data.rates :
         FromPayload(body.rates, code, data.rates[code])

\* C7: the rates of a validated response hold only entries whose code was
\* a well-formed currency code in the payload and whose rate is finite and
\* positive; an entry with a malformed code appears under no code, not
\* under EUR either.
C7_OnlyWellFormedCodes ==
  [][\A q \in BagToSet(inflight) : \A body \in ApiBodies(q) :
       (HttpOk(q, body) /\ ~Malformed(body))
       => RatesFromPayload(q, body, out'.data)]_vars

(***************************************************************************)
(* SpecKey: the cache keys of two requests, the second with the symbols of *)
(* the first in another order.                                             *)
(***************************************************************************)
KeyNext == BuildKeys /\ OnlyKey

\* The initial states of SpecKey: two requests to compare
InitKey == Base /\ KeyInit /\ HistIdle /\ FavIdle /\ CalcIdle /\ StatIdle

SpecKey == InitKey /\ [][KeyNext]_vars

\* C4: whatever the operation, the dates, the base and the symbols, the
\* cache key of a request is the same for every order of its symbol list.
C4_KeyOrderInvariant == keyOut # <<>> => keyOut[1] = keyOut[2]

(***************************************************************************)
(* SpecDistinctKeys: the cache keys of two requests that differ, after     *)
(* sanitizing, in the operation, a date, the base or the set of symbols.   *)
(***************************************************************************)
KeyLongSymbols == 48    \* symbol lists of up to KeyLongSymbols codes

\* The i-th of the codes AAA, AAB, ..., AAZ, ABA, ...
CodeNumber(i) ==
  "A" \o CharAt(UpperAlphabet, ((i - 1) \div 26) + 1) \o CharAt(UpperAlphabet, ((i - 1) % 26) + 1)

\* KeyLongSymbols - 1 codes and one more
LongSymbols(last) == [i \in 1..KeyLongSymbols |-> IF i < KeyLongSymbols THEN CodeNumber(i) ELSE last]

DistinctCalls ==
  { LatestCall("EUR", <<>>),
    LatestCall("EUR", <<"USD">>),
    LatestCall("USD", <<"EUR">>),
    LatestCall("EUR", <<"USD", "GBP">>),
    LatestCall("EUR", LongSymbols("USD")),
    LatestCall("EUR", LongSymbols("UAH")),
    HistoricalCall("2024-12-20", "EUR", <<"USD">>),
    HistoricalCall("2024-12-19", "EUR", <<"USD">>),
    HistoricalCall("2024-12-20", "USD", <<>>),
    TimeSeriesCall("2024-12-01", "2024-12-20", "EUR", <<"USD">>),
    TimeSeriesCall("2024-12-01", "", "EUR", <<"USD">>),
    TimeSeriesCall("2024-12-20", "", "EUR", <<"USD">>) }

\* What a request asks for: the operation and its sanitized arguments
Asked(r) ==
  [op |-> r.op,
   start |-> IF r.op = "latest" THEN "" ELSE sanitizedStart(r),
   end |-> IF r.op = "timeseries" THEN sanitizedEnd(r) ELSE "",
   base |-> sanitizedBase(r),
   symbols |-> { sanitizedSymbols(r)[i] : i \in 1..Len(sanitizedSymbols(r)) }]

DistinctPairs == { <<a, b>> : a, b \in DistinctCalls } \ { <<a, a>> : a \in DistinctCalls }

InitDistinctKeys ==
  /\ Base /\ HistIdle /\ FavIdle /\ CalcIdle /\ StatIdle
  /\ keyReq \in DistinctPairs
  /\ keyOut = <<>>

SpecDistinctKeys == InitDistinctKeys /\ [][KeyNext]_vars

\* C24: two requests that do not ask for the same thing never get the same
\* cache key, however long their symbol lists are.
C24_DistinctKeys ==
  (keyOut # <<>> /\ Asked(keyReq[1]) # Asked(keyReq[2])) => keyOut[1] # keyOut[2]

\* As C24, for keys shorter than keyMaxLength only
C24_ShortKeysDistinct ==
  (/\ keyOut # <<>>
   /\ Asked(keyReq[1]) # Asked(keyReq[2])
   /\ Len(keyOut[1]) < keyMaxLength) => keyOut[1] # keyOut[2]

(***************************************************************************)
(* SpecTable: typing into the search box, clearing the filters and paging  *)
(* while time passes.                                                      *)
(***************************************************************************)
TableNext ==
  \/ \E value \in SearchInputs : updateSearchTerm(value) /\ OnlyTable
  \/ TableTick /\ OnlyTable
  \/ SearchFire /\ OnlyTable
  \/ clearFilters /\ OnlyTable
  \/ \E page \in 0..TableMaxPage : goToPage(page) /\ OnlyTable
  \/ previousPage /\ OnlyTable
  \/ nextPage /\ OnlyTable

SpecTable == Init /\ [][TableNext]_vars

\* C8: when the debounce time has passed after the last updateSearchTerm
\* of a burst, searchTerm is the sanitized last input and currentPage is 1,
\* whatever happened before the burst; searchTerm is written by nothing
\* else but clearFilters, so no earlier value of a burst reaches it.
C8_LastInputApplied ==
  [][/\ SearchFire => (searchTerm' = searchPending /\ currentPage' = 1)
     /\ searchTerm' # searchTerm => (SearchFire \/ clearFilters)]_vars

(***************************************************************************)
(* SpecPager: the table is searched, filtered, sorted, paged and reloaded  *)
(* and its favorites are toggled.                                          *)
(***************************************************************************)
PagerSearchInputs == {"", "u"}
PagerFilterInputs == { <<"favoritesOnly", TRUE>>, <<"onlyGainers", TRUE>> }
PagerCodes        == {"usd", "GBP"}
PagerLists        == { TableRows, SubSeq(TableRows, 1, 1) }

\* tableLog records the call; the rest of the table's second group stays
logged(event) ==
  /\ tableLog' = event
  /\ UNCHANGED <<tableFavorites, tableFavoritesStorage, sortColumn, sortDirection,
                 tableLoading, tableError>>

PagerNext ==
  \/ \E value \in PagerSearchInputs : updateSearchTerm(value) /\ logged("typed") /\ OnlyPager
  \/ TableTick /\ OnlyTable
  \/ SearchFire /\ OnlyTable
  \/ clearFilters /\ logged("cleared") /\ OnlyPager
  \/ \E f \in PagerFilterInputs : updateFilter(f[1], f[2]) /\ OnlyPager
  \/ \E column \in {"code", "rate"} : sort(column) /\ OnlyPager
  \/ \E code \in PagerCodes : tableToggleFavorite(code) /\ OnlyPager
  \/ loadRates /\ OnlyPager
  \/ \E data \in PagerLists : ratesNext(data) /\ OnlyPager
  \/ \E page \in 0..TableMaxPage : goToPage(page) /\ OnlyTable
  \/ previousPage /\ OnlyTable
  \/ nextPage /\ OnlyTable

SpecPager == Init /\ [][PagerNext]_vars

\* C27: from clearFilters until the next updateSearchTerm the search term
\* is empty, whatever was typed before clearFilters.
C27_ClearedStaysEmpty == tableLog = "cleared" => searchTerm = ""

\* C28: currentPage is within 1..max(1, totalPages), and the page shown has
\* a row whenever a row passes the filters.
C28_PageInRange ==
  /\ currentPage >= 1
  /\ currentPage <= Max(1, totalPages)
  /\ Len(filteredRows) > 0 => Len(paginatedRows) > 0

(***************************************************************************)
(* SpecConv: changing the amount and the currencies of the converter while *)
(* time passes.                                                            *)
(***************************************************************************)
ConvNext ==
  \/ \E value \in AmountInputs : updateAmount(value) /\ OnlyConv
  \/ \E code \in CodeInputs : updateFromCurrency(code) /\ OnlyConv
  \/ \E code \in CodeInputs : updateToCurrency(code) /\ OnlyConv
  \/ ConvTick /\ OnlyConv
  \/ ConvertFire /\ OnlyConvert

SpecConv == Init /\ [][ConvNext]_vars

\* C9: when the debounce time has passed after the last update of a burst,
\* convert() runs with the latest amount and currencies, for every burst
\* in the life of the component.
C9_EveryBurstConverts ==
  [][ConvertFire =>
       convertLog' = [amount |-> amount, from |-> fromCurrency, to |-> toCurrency]]_vars

(***************************************************************************)
(* SpecRace: getLatestRates is called twice with arguments that build the  *)
(* same key, before and after responses and failures arrive, while time    *)
(* passes.                                                                 *)
(***************************************************************************)
RaceNext ==
  \/ \E r \in RaceCalls : Call(r, RaceMaxInflight) /\ OnlyApi
  \/ \E q \in BagToSet(inflight) : \E body \in RaceBodies(q) : HttpOk(q, body) /\ OnlyApi
  \/ \E q \in BagToSet(inflight) : HttpError(q) /\ OnlyApi
  \/ Tick /\ OnlyApi

SpecRace == Init /\ [][RaceNext]_vars

\* The entries of cache c stored under key
EntriesOf(c, key) == { i \in 1..Len(c) : c[i].key = key }

\* C12: a call that finds no stored value sends its own request, also
\* when a request for the same key is in flight; every response is
\* written to the cache, where the key then has exactly one entry, which
\* holds the value of the response that arrived last.
C12_SameKeyRace ==
  [][/\ \A r \in RaceCalls :
          (Call(r, RaceMaxInflight) /\ out'.src # "cache") =>
            /\ BagCardinality(inflight') = BagCardinality(inflight) + 1
            /\ CopiesIn(Prepared[r], inflight') = CopiesIn(Prepared[r], inflight) + 1
     /\ \A q \in BagToSet(inflight) : \A body \in RaceBodies(q) :
          HttpOk(q, body) =>
            /\ Cardinality(EntriesOf(cache', q.key)) = 1
            /\ \A i \in EntriesOf(cache', q.key) :
                 /\ cache'[i].data = validateResponse(q, body)
                 /\ cache'[i].timestamp = now]_vars

\* C12 witness: the first of two responses for one key has just been
\* written while the request of the second call, sent before it arrived,
\* is still in flight
C12_Witness ==
  \E q \in BagToSet(inflight) :
    /\ q.failures = 0
    /\ out.src = "network"
    /\ out.key = q.key
    /\ \E i \in EntriesOf(cache, q.key) : cache[i].timestamp = now /\ cache[i].data = out.data

(***************************************************************************)
(* SpecHistory: the converter is constructed with some stored history;     *)
(* the user swaps the currencies, picks amount presets and clears the      *)
(* history while responses arrive in any order and time passes.            *)
(***************************************************************************)
PresetInputs == {Num(10), Num(0), NaN}

InitHistory ==
  /\ Base /\ KeyIdle /\ FavIdle /\ CalcIdle /\ StatIdle
  /\ \E saved \in StoredHistories : HistInit(saved)

HistoryNext ==
  \/ swapCurrencies /\ OnlyConvert
  \/ \E value \in PresetInputs : setAmountPreset(value) /\ OnlyConvert
  \/ \E i \in 1..Len(convRequests) : \E data \in ConvertBodies(convRequests[i]) :
       ConvertResponse(i, data) /\ OnlyConvert
  \/ clearHistory /\ OnlyConvert
  \/ Tick /\ OnlyApi

SpecHistory == InitHistory /\ [][HistoryNext]_vars

\* The quote for request req, as the service delivers it
Quote(req) ==
  [kind |-> "data", rates |-> Put(EmptyMap, req.toCode, Rate(req.fromCode, req.toCode))]

\* C11: whichever conversion request is in flight, also one older than a
\* request that was answered already, its response sets result and
\* exchangeRate from its own pair: nothing cancels or ignores it, so the
\* result shown can belong to a pair that is not the selected one.
C11_StaleResponseOverwrites ==
  \A i \in 1..Len(convRequests) :
    LET req   == convRequests[i]
        after == convertNext(req, Quote(req))
    IN  /\ after.exchangeRate = Num(Rate(req.fromCode, req.toCode))
        /\ after.result = Num(amount * Rate(req.fromCode, req.toCode))

\* C11 witness: every response has arrived, the last one was the response
\* to the older request, and the rate shown is the rate of its pair, not
\* of the selected pair, whose conversion is second in the history
C11_Witness ==
  /\ convRequests = <<>>
  /\ Len(conversionHistory) >= 2
  /\ conversionHistory[2].date.n >= 0
  /\ conversionHistory[2].from = fromCurrency
  /\ conversionHistory[2].to = toCurrency
  /\ conversionHistory[1].from # fromCurrency
  /\ exchangeRate = Num(conversionHistory[1].rate)
  /\ exchangeRate # Num(Rate(fromCurrency, toCurrency))

\* C13: the history holds at most historyLimit conversions, newest first,
\* and the array in localStorage is the same list, whatever was stored
\* when the component was constructed.
C13_HistoryBounded ==
  /\ Len(conversionHistory) <= historyLimit
  /\ \A i \in 1..(Len(conversionHistory) - 1) :
       conversionHistory[i].date.n >= conversionHistory[i + 1].date.n
  /\ (/\ historyStorage.kind = "array"
      /\ \A i \in 1..Len(historyStorage.items) : historyStorage.items[i].date.kind = "num")
       => historyStorage.items = conversionHistory

(***************************************************************************)
(* SpecFavorites: ngOnInit loads the favorites from some stored item and   *)
(* the user toggles codes.                                                 *)
(***************************************************************************)
InitFavorites ==
  /\ Base /\ KeyIdle /\ HistIdle /\ CalcIdle /\ StatIdle
  /\ \E saved \in StoredFavorites : FavInit(saved)

FavoritesNext == \E currency \in FavoriteInputs : toggleFavorite(currency) /\ OnlyFav

SpecFavorites == InitFavorites /\ [][FavoritesNext]_vars

\* C14: the favorites hold at most favoritesLimit codes, each of three
\* upper-case letters, whatever item was stored when they were loaded and
\* whichever codes were toggled.
C14_FavoritesBounded ==
  /\ Len(favoriteCurrencies) <= favoritesLimit
  /\ \A i \in 1..Len(favoriteCurrencies) : isValidCurrencyCode(favoriteCurrencies[i])

\* toggleFavorite removes a code that is present and adds one that is
\* absent only while fewer than favoritesLimit codes are stored
ToggleContract ==
  [][\A currency \in FavoriteInputs :
       LET code == converterSanitizeCurrencyCode(currency)
           has(f) == \E i \in 1..Len(f) : f[i] = code
       IN  (toggleFavorite(currency) /\ code # "") =>
             IF has(favoriteCurrencies)
             THEN ~has(favoriteCurrencies')
             ELSE has(favoriteCurrencies') <=> Len(favoriteCurrencies) < favoritesLimit]_vars

(***************************************************************************)
(* SpecData: getCurrencyData maps one pair of responses for some selected  *)
(* symbols.                                                                *)
(***************************************************************************)
InitData ==
  /\ Base /\ KeyIdle /\ HistIdle /\ FavIdle /\ StatIdle
  /\ calcIn \in DataInputs
  /\ calcOut = NotApplied

DataNext == ApplyCurrencyData /\ OnlyCalc

SpecData == InitData /\ [][DataNext]_vars

\* The selected symbols that have a finite, positive rate in both responses
Quoted(in) ==
  IF in.latest.isNull \/ in.historical.isNull THEN <<>>
  ELSE SelectSeq(selectSymbols(in.symbols),
                 LAMBDA code : /\ code \in DOMAIN in.latest.rates
                               /\ code \in DOMAIN in.historical.rates
                               /\ isValidRate(in.latest.rates[code])
                               /\ isValidRate(in.historical.rates[code]))

\* C15: the entries are those of the selected symbols with a finite,
\* positive latest rate c and prior-day rate p, one each and in the order
\* of the selection, with rate = c, change24h = c - p and
\* changePercent24h = (c - p) / p * 100; every other symbol is left out.
C15_CurrencyData ==
  calcOut.fn = "getCurrencyData" =>
    LET quoted == Quoted(calcIn)
        given  == calcOut.value
    IN  /\ Len(given) = Len(quoted)
        /\ \A i \in 1..Len(quoted) :
             LET c == calcIn.latest.rates[quoted[i]]
                 p == calcIn.historical.rates[quoted[i]]
             IN  /\ given[i].code = quoted[i]
                 /\ given[i].rate = c
                 /\ given[i].change24h = QSub(c, p)
                 /\ given[i].changePercent24h = QMul(QDiv(QSub(c, p), p), Q(100, 1))

\* C15 witness: of three selected symbols one is left out, and the entry
\* of USD, at 1.10 after 1.00, has the change 0.10 and 10 percent
C15_Witness ==
  /\ calcOut.fn = "getCurrencyData"
  /\ Len(selectSymbols(calcIn.symbols)) = 3
  /\ Len(calcOut.value) = 2
  /\ calcOut.value[1].code = "USD"
  /\ calcOut.value[1].rate = Q(11, 10)
  /\ calcOut.value[1].change24h = Q(1, 10)
  /\ calcOut.value[1].changePercent24h = Q(10, 1)

(***************************************************************************)
(* SpecIndicators: the chart computes the moving average or the            *)
(* exponential moving average of one series for one period.                *)
(***************************************************************************)
InitIndicators ==
  /\ Base /\ KeyIdle /\ HistIdle /\ FavIdle /\ StatIdle
  /\ calcIn \in IndicatorInputs
  /\ calcOut = NotApplied

IndicatorsNext ==
  \/ ApplyMA /\ OnlyCalc
  \/ ApplyEMA /\ OnlyCalc

SpecIndicators == InitIndicators /\ [][IndicatorsNext]_vars

\* The last EMA value before index i, or Absent when there is none
RECURSIVE LastEma(_, _)
LastEma(values, i) ==
  IF i = 1 THEN Absent
  ELSE IF values[i - 1] # Absent THEN values[i - 1] ELSE LastEma(values, i - 1)

\* C16: the exponential moving average has the length of the series; its
\* value at i is absent exactly when the input at i is absent or not
\* finite; where an earlier value exists, the value at i follows from the
\* last one by (current - prevEma) * 2 / (period + 1) + prevEma, wherever
\* the absent inputs are, also at the start of the series.
C16_EmaFollowsInput ==
  calcOut.fn = "calculateEMA" =>
    LET data   == calcIn.data
        values == calcOut.value
        k      == Q(2, validPeriod(calcIn.period) + 1)
    IN  /\ Len(values) = Len(data)
        /\ \A i \in 1..Len(data) :
             /\ (values[i] = Absent) <=> ~isFiniteNumber(data[i])
             /\ (isFiniteNumber(data[i]) /\ LastEma(values, i) # Absent) =>
                  values[i] = QAdd(QMul(QSub(data[i], LastEma(values, i)), k),
                                   LastEma(values, i))

\* The values of the series at i - p + 1 .. i that are finite numbers
Trailing(data, i, p) == { j \in (i - p + 1)..i : isFiniteNumber(data[j]) }

\* C17: the moving average for period p, clamped to 2..100, has the length
\* of the series; its value at index i (from 0) is absent for i < p - 1
\* and otherwise the sum of the finite values among the trailing p inputs
\* divided by their number, absent when there is none; for 1, 2, 3, 4, 5
\* and period 3 it is absent, absent, 2, 3, 4.
C17_MovingAverage ==
  calcOut.fn = "calculateMA" =>
    LET data   == calcIn.data
        values == calcOut.value
        p      == IF calcIn.period < 2 THEN 2
                  ELSE IF calcIn.period > 100 THEN 100 ELSE calcIn.period
    IN  /\ Len(values) = Len(data)
        /\ \A i \in 1..Len(data) :
             IF i < p \/ Trailing(data, i, p) = {}
             THEN values[i] = Absent
             ELSE QMul(values[i], Q(Cardinality(Trailing(data, i, p)), 1))
                    = QSum(finiteValues(SubSeq(data, i - p + 1, i)))
        /\ (data = <<Q(1, 1), Q(2, 1), Q(3, 1), Q(4, 1), Q(5, 1)>> /\ calcIn.period = 3) =>
             values = <<Absent, Absent, Q(2, 1), Q(3, 1), Q(4, 1)>>

\* C17 witness: the moving average of 1, 2, 3, 4, 5 for period 3
C17_Witness ==
  /\ calcOut.fn = "calculateMA"
  /\ calcIn.period = 3
  /\ calcOut.value = <<Absent, Absent, Q(2, 1), Q(3, 1), Q(4, 1)>>

(***************************************************************************)
(* SpecStatistics: the analytics card and the chart load one series after  *)
(* the other.                                                              *)
(***************************************************************************)
StatisticsNext ==
  \/ \E week \in StatSeries : \E month \in MonthSeries :
       LoadAnalytics(week, month) /\ OnlyStat
  \/ \E days \in StatSeries : LoadChart(days) /\ OnlyStat

SpecStatistics == Init /\ [][StatisticsNext]_vars

\* Whether the second half of rates, split at floor(n / 2), has a mean
\* above the first half's times up, or below it times down
HalvesTrend(rates) ==
  LET midPoint  == Len(rates) \div 2
      firstAvg  == mean(SubSeq(rates, 1, midPoint))
      secondAvg == mean(SubSeq(rates, midPoint + 1, Len(rates)))
  IN  IF Len(rates) < 2 THEN "neutral"
      ELSE IF QGreater(secondAvg, QMul(firstAvg, Q(101, 100))) THEN "up"
      ELSE IF QLess(secondAvg, QMul(firstAvg, Q(99, 100))) THEN "down"
      ELSE "neutral"

\* C18: the trend of the chart metrics and the trend of the card, once a
\* series is loaded, are up when the mean of the second half of the valid
\* rates is above 1.01 times the mean of the first half, down when it is
\* below 0.99 times that mean, and neutral otherwise and for fewer than
\* two valid rates.
C18_TrendByOnePercent ==
  /\ ~metrics.isNull => metrics.trend = HalvesTrend(extractRates(chartData.rates))
  /\ analyticsLoad.done => analytics.trend = HalvesTrend(analyticsLoad.week)

\* C19: when the series loaded last holds no valid rate, the metrics of
\* the chart are null, and weekHigh, weekLow and avg7Days of the card (for
\* the month series monthHigh, monthLow and avg30Days) are null, whatever
\* was loaded before.
C19_NoRatesNoStatistics ==
  /\ (~chartData.isNull /\ extractRates(chartData.rates) = <<>>) => metrics.isNull
  /\ (analyticsLoad.done /\ analyticsLoad.week = <<>>) =>
       /\ analytics.weekHigh = Absent
       /\ analytics.weekLow = Absent
       /\ analytics.avg7Days = Absent
  /\ (analyticsLoad.done /\ analyticsLoad.month = <<>>) =>
       /\ analytics.monthHigh = Absent
       /\ analytics.monthLow = Absent
       /\ analytics.avg30Days = Absent

\* What the volatility of rates has to be: absent for fewer than two valid
\* rates, 0 for two or more equal rates
VolatilityAsPromised(value, rates) ==
  /\ Len(rates) < 2 => value = Absent
  /\ (Len(rates) >= 2 /\ \A i \in 1..Len(rates) : rates[i] = rates[1]) => value = Q(0, 1)

\* C20: the volatility of the chart metrics and of the card is absent for
\* a series with fewer than two valid rates, so never 0 for a single
\* rate, and 0 for two or more equal valid rates.
C20_VolatilityNeedsTwo ==
  /\ ~chartData.isNull =>
       VolatilityAsPromised(IF metrics.isNull THEN Absent ELSE metrics.volatility,
                            extractRates(chartData.rates))
  /\ analyticsLoad.done => VolatilityAsPromised(analytics.volatility, analyticsLoad.week)

(***************************************************************************)
(* SpecStrength: the market overview computes the strengths of one list of *)
(* currencies and one pair of historical rates.                            *)
(***************************************************************************)
InitStrength ==
  /\ Base /\ KeyIdle /\ HistIdle /\ FavIdle /\ StatIdle
  /\ calcIn \in MarketInputs
  /\ calcOut = NotApplied

StrengthNext == ApplyStrengths /\ OnlyCalc

SpecStrength == InitStrength /\ [][StrengthNext]_vars

\* The change in percent from rate r to rate c, 0 when r is unavailable
PercentFrom(c, rates, code) ==
  IF code \in DOMAIN rates /\ rates[code].kind = "num" /\ rates[code].n > 0
  THEN QDiv(QMul(QSub(c, rates[code]), Q(100, 1)), rates[code])
  ELSE Q(0, 1)

\* 0.5 * change24h + 0.3 * change7d + 0.2 * change30d of one currency
Weighted(c, rates7d, rates30d) ==
  QDiv(QAdd(QAdd(QMul(Q(5, 1), IF c.changePercent24h.kind = "num"
                               THEN c.changePercent24h ELSE Q(0, 1)),
                 QMul(Q(3, 1), PercentFrom(c.rate, rates7d, c.code))),
            QMul(Q(2, 1), PercentFrom(c.rate, rates30d, c.code))),
       Q(10, 1))

\* C21: every currency with a valid rate has one entry, whose strength is
\* 0.5 * change24h + 0.3 * change7d + 0.2 * change30d with 0 for a term
\* whose rate is unavailable; it is strong iff strength > 2, weak iff
\* strength < -2 and moderate otherwise; the entries are sorted by
\* strength, largest first; strongestCurrencies and weakestCurrencies hold
\* at most 5 entries, all strong and all weak.
C21_Strengths ==
  calcOut.fn = "calculateStrengths" =>
    LET rated == SelectSeq(calcIn.currencies, LAMBDA c : c.rate.kind = "num" /\ c.rate.n > 0)
        es    == calcOut.value
    IN  /\ Len(es) = Len(rated)
        /\ \A k \in 1..Len(rated) :
             Cardinality({ i \in 1..Len(es) : es[i].code = rated[k].code })
               = Cardinality({ i \in 1..Len(rated) : rated[i].code = rated[k].code })
        /\ \A i \in 1..Len(es) :
             \E k \in 1..Len(rated) :
               /\ rated[k].code = es[i].code
               /\ es[i].strength = Weighted(rated[k], calcIn.historical7d, calcIn.historical30d)
        /\ \A i \in 1..Len(es) :
             /\ es[i].trend = "strong" <=> es[i].strength.n > 2 * es[i].strength.d
             /\ es[i].trend = "weak" <=> es[i].strength.n < (0 - 2) * es[i].strength.d
             /\ es[i].trend \in {"strong", "weak", "moderate"}
        /\ \A i \in 1..(Len(es) - 1) : ~QLess(es[i].strength, es[i + 1].strength)
        /\ Len(calcOut.strongest) <= 5
        /\ Len(calcOut.weakest) <= 5
        /\ \A i \in 1..Len(calcOut.strongest) : calcOut.strongest[i].trend = "strong"
        /\ \A i \in 1..Len(calcOut.weakest) : calcOut.weakest[i].trend = "weak"

C21_Witness ==
  /\ calcOut.fn = "calculateStrengths"
  /\ Len(calcOut.value) = listLimit + 2
  /\ Len(calcOut.strongest) = 1
  /\ Len(calcOut.weakest) = listLimit
  /\ calcIn.historical7d # EmptyMap

(***************************************************************************)
(* SpecFeed: the dashboard loads at start, on refresh and on the timer;    *)
(* the base currency changes; responses arrive; time passes.               *)
(***************************************************************************)
FeedBaseInputs == {"EUR", "usd"}

FeedNext ==
  \/ FeedNgOnInit /\ OnlyFeed
  \/ FeedOnRefresh /\ OnlyFeed
  \/ FeedTimerFire /\ OnlyFeed
  \/ \E c \in FeedBaseInputs : setBaseCurrency(c) /\ OnlyFeed
  \/ \E i \in 1..Len(subs) : \E k \in 1..Len(subs[i].inners) :
       \E op \in {"latest", "historical"} : FeedResponse(i, k, op) /\ OnlyFeed
  \/ FeedTick /\ OnlyFeed

SpecFeed == Init /\ [][FeedNext]_vars

\* C25: the dashboard never holds more than one live subscription to
\* getCurrencyData, and a change of the base currency starts one
\* fetch-and-aggregate run and at most one update of the list.
C25_OneSubscription ==
  /\ Len(subs) <= 1
  /\ feedLog.event = "base" => (feedLog.runs = 1 /\ feedLog.updates <= 1)

\* C26: the load made by a tick of the auto-refresh timer sends a request
\* for the latest rates and delivers nothing from the cache, so lastUpdate
\* does not advance in the tick itself.
C26_TickFetches ==
  feedLog.event = "timer" =>
    /\ feedLog.requests = 1
    /\ feedLog.updates = 0
    /\ lastUpdate < now

(***************************************************************************)
(* SpecSwitch: the dashboard subscribes; the base currency and the         *)
(* selected currencies change once each; responses arrive or requests      *)
(* fail, all within one unit of time.                                      *)
(***************************************************************************)
SwitchBaseInputs   == {"usd", "US D"}
SwitchSymbolInputs == {<<"jpy", "JPY">>, <<"JPY">>}

SwitchNext ==
  \/ FeedNgOnInit /\ OnlyFeed
  \/ \E c \in SwitchBaseInputs : setBaseCurrency(c) /\ OnlyFeed
  \/ \E l \in SwitchSymbolInputs : setSelectedCurrencies(l) /\ OnlyFeed
  \/ \E i \in 1..Len(subs) : \E k \in 1..Len(subs[i].inners) :
       \E op \in {"latest", "historical"} : FeedResponse(i, k, op) /\ OnlyFeed
  \/ \E i \in 1..Len(subs) : \E k \in 1..Len(subs[i].inners) :
       \E op \in {"latest", "historical"} : FeedFailure(i, k, op) /\ OnlyFeed

SpecSwitch == Init /\ [][SwitchNext]_vars

\* C29: every list delivered was built for the base currency and the
\* symbols selected at the time of the delivery: no run for an earlier
\* selection delivers once a newer selection is set.
C29_NoStaleList ==
  feedLog.updates > 0 => (~feedLog.stale /\ shown = selection)

\* C29 witness: a change of the selection has just abandoned a run whose
\* requests were in flight and started a run for the new selection
C29_Witness ==
  /\ feedLog.event \in {"base", "symbols"}
  /\ feedLog.abandoned = 1
  /\ feedLog.runs = 1
  /\ Len(subs[1].inners) = 1
  /\ subs[1].inners[1].sel = selection

\* C29 witness: after both the base and the symbols were changed, a
\* response has completed the run for the selection in force
C29_WitnessDelivered ==
  /\ feedLog.event = "network"
  /\ feedLog.updates = 1
  /\ selection.base = "USD"
  /\ selection.symbols = <<"JPY">>

(***************************************************************************)
(* SpecDash: the dashboard is initialised, refreshed by the user and by    *)
(* the timer, and destroyed, while time passes.                            *)
(***************************************************************************)
DashNext ==
  \/ ngOnInit /\ OnlyDash
  \/ onRefresh /\ OnlyDash
  \/ TimerFire /\ OnlyDash
  \/ LoadNext /\ OnlyDash
  \/ LoadFailed /\ OnlyDash
  \/ ngOnDestroy /\ OnlyDash
  \/ DashTick /\ OnlyDash

SpecDash == Init /\ [][DashNext]_vars

\* C10: once the dashboard is destroyed, no timer is registered,
\* refreshInterval is null and no loadData call is made by the timer; while
\* it is alive, the registered timer calls loadData REFRESH_INTERVAL_MS
\* after ngOnInit and after each of its calls.
C10_TimerStopsOnDestroy ==
  /\ dashState = "destroyed" => (refreshInterval = 0 /\ timers = NoTimers)
  /\ dashLog.who = "timer" => dashLog.state = "alive"
  /\ dashState = "alive" =>
       /\ refreshInterval # 0
       /\ Len(timers) = 1
       /\ timers[1].handle = refreshInterval
       /\ timers[1].left + dashLog.elapsed = REFRESH_INTERVAL_MS

\* C10 witness: the timer has called loadData, then the dashboard was
\* destroyed, and more than REFRESH_INTERVAL_MS has passed since that call
C10_Witness ==
  /\ dashState = "destroyed"
  /\ dashLog.who = "timer"
  /\ dashLog.elapsed > REFRESH_INTERVAL_MS


(***************************************************************************)
(* The load of the market overview. Every network request eventually       *)
(* succeeds or fails: the first list of getCurrencyData arrives or the     *)
(* subscription fails, and each of the two requests of a forkJoin          *)
(* subscription ends. Later lists arrive only when the selection changes,  *)
(* which nothing forces.                                                   *)
(***************************************************************************)
MarketBaseInputs == {"USD"}

MarketFeedLists ==
  { <<>>,
    <<Entry24h("USD", Q(11, 10), Q(10, 1)), Entry24h("GBP", Q(1, 1), Absent)>> }

\* What getHistoricalRate hands on: rates of the day, or the empty fallback
MarketBodies ==
  { [object |-> TRUE, rates |-> [code \in {"USD", "GBP", "SEK"} |->
                                   IF code = "GBP" THEN Q(0, 1) ELSE Q(9, 10)]],
    [object |-> TRUE, rates |-> EmptyMap] }

MarketRequests == {"data7d", "data30d"}

MarketFirstList ==
  /\ marketFeed = "pending"
  /\ \/ \E data \in MarketFeedLists : marketListNext(data, TRUE)
     \/ marketListError
  /\ OnlyMarket

MarketRequestEnds(i, which) ==
  /\ \E data \in MarketBodies, failed \in BOOLEAN : marketSettle(i, which, data, failed)
  /\ OnlyMarket

MarketNext ==
  \/ marketNgOnInit /\ OnlyMarket
  \/ \E currency \in MarketBaseInputs : marketBaseNext(currency) /\ OnlyMarket
  \/ \E data \in MarketFeedLists : marketListNext(data, TRUE) /\ OnlyMarket
  \/ \E data \in MarketFeedLists : marketListNext(data, FALSE) /\ OnlyMarket
  \/ marketListError /\ OnlyMarket
  \/ \E i \in 1..MarketMaxRuns, which \in MarketRequests : MarketRequestEnds(i, which)

MarketFairness ==
  /\ WF_vars(MarketFirstList)
  /\ \A i \in 1..MarketMaxRuns, which \in MarketRequests : WF_vars(MarketRequestEnds(i, which))

SpecMarket == Init /\ [][MarketNext]_vars /\ MarketFairness

\* C30: every load started by loadMarketData eventually ends with the
\* loading signal false, whichever path is taken: a failed or empty list,
\* an unusable base code or date, a failed 7-day or 30-day request, or
\* success.
C30_LoadEnds == (marketFeed # "none" /\ marketLoading) ~> ~marketLoading

\* A load that ended through forkJoin after the 7-day request failed or
\* brought nothing usable
C30_Witness ==
  /\ marketLog = [event |-> "settle", path |-> "forkJoin"]
  /\ ~marketLoading
  /\ marketHistorical7d = EmptyMap
  /\ marketHistorical30d # EmptyMap

\* A load that ended at once, on a list without a usable code
C30_WitnessEmptyList ==
  /\ marketLog = [event |-> "list", path |-> "symbols"]
  /\ ~marketLoading

====
